---------------------------- MODULE RuntimeProofs ----------------------------
(***************************************************************************)
(* Proofs about the runtime of an application: a task and its runners,     *)
(* a delivery of the execution source, the resources of several tasks and  *)
(* the dead letters, each for every configuration c that its theorems      *)
(* allow, and about the family MCRuntime that TLC checks.                  *)
(***************************************************************************)
EXTENDS MCRuntime, FiniteSetTheorems, TLAPS

(* A configuration of the runtime: the runner serve() starts is one of the   *)
(* runners, and the deliveries are finitely many.                            *)
RuntimeConfig(c) ==
  /\ c.First \in c.Runners /\ c.Nobody \notin c.Runners
  /\ c.Concurrency \in Nat /\ IsFiniteSet(c.Deliveries)

(* The states of a runner. *)
RunnerStates(c) ==
  [pc : {"unborn", "loop", "waiting", "drainWait", "pauseWait", "resuming", "fetching",
         "backoff", "releasing", "emitting", "finally", "done"},
   fetch : {"none", "running", "done", "error", "fatal"},
   room : 0..c.Concurrency, watch : BOOLEAN, drainParked : BOOLEAN,
   pauseParked : BOOLEAN, exiting : BOOLEAN, failed : BOOLEAN]

(* What a runner has of the deliveries that are where pl says. *)
Mine(c, r, pl) == {d \in c.Deliveries : pl[d].by = r}

(* A fetch that runs or has returned keeps its runner in _fetch_deliveries, a *)
(* runner says that it is parked only where it waits, and it fails only when  *)
(* a fetch failed.                                                            *)
Consistent(c, rec) ==
  /\ rec \in RunnerStates(c)
  /\ rec.fetch \in {"running", "done"} => rec.pc \in {"fetching", "releasing"}
  /\ rec.drainParked => rec.pc = "drainWait"
  /\ rec.pauseParked => rec.pc \in {"pauseWait", "loop", "resuming"}
  /\ rec.failed \/ rec.fetch \in {"error", "fatal"} => c.FetchFails

(* A delivery is where the control state of its runner says, and no parked   *)
(* runner has one.                                                           *)
Placed(c, r, rec, pl) ==
  \A d \in c.Deliveries : pl[d].by = r =>
    /\ pl[d].at \in {"fetched", "claimed", "running"}
    /\ pl[d].at = "fetched" => rec.fetch = "done"
    /\ pl[d].at = "claimed" => rec.pc = "emitting"
    /\ rec.pc # "unborn" /\ ~rec.drainParked /\ ~rec.pauseParked

(* What a runner has and what its fetch may still bring is within the        *)
(* concurrency of the task.                                                  *)
Bounded(c, r, rec, pl) ==
  /\ Cardinality(Mine(c, r, pl)) <= c.Concurrency
  /\ rec.fetch = "running" => Cardinality(Mine(c, r, pl)) + rec.room <= c.Concurrency

(* A runner that fits what the deliveries say of it. *)
Fits(c, r, rec, pl) == Consistent(c, rec) /\ Placed(c, r, rec, pl) /\ Bounded(c, r, rec, pl)

(* Nobody has a delivery that is in the source, settled or lost. *)
PlacesTyped(c, pl) ==
  /\ pl \in [c.Deliveries -> [at : {"queue", "fetched", "claimed", "running", "settled", "lost"},
                              by : c.Runners \cup {c.Nobody}]]
  /\ \A d \in c.Deliveries : pl[d].by = c.Nobody <=> pl[d].at \in {"queue", "settled", "lost"}

(* The type of the registries, of serve() and of the commands. *)
AppTyped(c) ==
  /\ stopping \in BOOLEAN /\ draining \in BOOLEAN /\ paused \in BOOLEAN
  /\ listed \subseteq c.Runners /\ tracked \subseteq c.Runners /\ live \subseteq c.Runners
  /\ command \in [c.Commands -> [at : {"new", "stopping", "starting", "ended"},
                                 target : c.Runners \cup {c.Nobody}]]
  /\ serve \in {"serving", "failing", "closing", "closed", "down"}

(* Every runner fits. *)
RunnersFit(c) ==
  /\ runner \in [c.Runners -> RunnerStates(c)]
  /\ PlacesTyped(c, place)
  /\ \A r \in c.Runners : Fits(c, r, runner[r], place)

(* The inductive invariant of every configuration. *)
RuntimeInv(c) == AppTyped(c) /\ RunnersFit(c)
--------------------------------------------------------------------------------
(* The states a runner may move to. *)

(* An unborn runner and a new one are states of a runner. *)
LEMMA BornStates ==
  ASSUME NEW c, RuntimeConfig(c)
  PROVE  /\ Runtime(c)!Unborn \in RunnerStates(c) /\ Runtime(c)!Born \in RunnerStates(c)
         /\ Consistent(c, Runtime(c)!Unborn) /\ Consistent(c, Runtime(c)!Born)
  <1>1. 0 \in 0..c.Concurrency
    BY DEF RuntimeConfig
  <1>2. Runtime(c)!Unborn \in RunnerStates(c)
    BY <1>1, Zenon DEF RunnerStates, Runtime!Unborn
  <1>3. [Runtime(c)!Unborn EXCEPT !.pc = "loop"] \in RunnerStates(c)
    BY <1>2 DEF RunnerStates
  <1>4. Runtime(c)!Born \in RunnerStates(c)
    BY <1>3 DEF Runtime!Born
  <1>5. Consistent(c, Runtime(c)!Unborn)
    BY <1>2, Zenon DEF Consistent, Runtime!Unborn
  <1>6. Consistent(c, Runtime(c)!Born)
    <2>1. Runtime(c)!Born.fetch = "none" /\ Runtime(c)!Born.failed = FALSE /\ Runtime(c)!Born.drainParked = FALSE /\ Runtime(c)!Born.pauseParked = FALSE
      BY DEF Runtime!Born, Runtime!Unborn
    <2> QED BY <1>4, <2>1 DEF Consistent
  <1> QED BY <1>2, <1>4, <1>5, <1>6

(* A part of the deliveries is finite. *)
LEMMA FiniteParts ==
  ASSUME NEW c, RuntimeConfig(c), NEW S, S \subseteq c.Deliveries
  PROVE  IsFiniteSet(S) /\ Cardinality(S) \in Nat /\ Runtime(c)!Cardinality(S) = Cardinality(S)
  <1>1. IsFiniteSet(S) /\ Cardinality(S) \in Nat
    BY FS_Subset, FS_CardinalityType DEF RuntimeConfig
  <1>2. Runtime(c)!Cardinality(S) = Cardinality(S)
    BY DEF Runtime!Cardinality, Cardinality
  <1> QED BY <1>1, <1>2

(* Leaving the loop. *)
LEMMA ExitState ==
  ASSUME NEW c, NEW rec \in RunnerStates(c), rec.failed => c.FetchFails
  PROVE  LET out == Runtime(c)!Exit(rec) IN
         /\ Consistent(c, out)
         /\ out.pc = "finally" /\ out.fetch = "none" /\ ~out.drainParked /\ ~out.pauseParked
         /\ out.exiting = rec.exiting /\ out.failed = rec.failed
  BY DEF Consistent, RunnerStates, Runtime!Exit

(* _fetch_deliveries returned nothing. *)
LEMMA AfterEmptyState ==
  ASSUME NEW c, NEW rec \in RunnerStates(c), rec.failed => c.FetchFails,
         ~rec.drainParked, ~rec.pauseParked
  PROVE  LET out == Runtime(c)!AfterEmpty(rec) IN
         /\ Consistent(c, out)
         /\ out.pc \in {"waiting", "finally"} /\ out.fetch = "none"
         /\ ~out.drainParked /\ ~out.pauseParked
         /\ out.exiting = rec.exiting /\ out.failed = rec.failed
         /\ out.pc = "finally" => stopping \/ rec.exiting
  <1> DEFINE back == [rec EXCEPT !.fetch = "none", !.watch = FALSE]
  <1>1. back \in RunnerStates(c) /\ back.exiting = rec.exiting /\ back.failed = rec.failed
        /\ back.fetch = "none" /\ ~back.drainParked /\ ~back.pauseParked
    BY DEF RunnerStates
  <1> HIDE DEF back
  <1>2. CASE rec.exiting \/ stopping
    <2>1. Runtime(c)!AfterEmpty(rec) = Runtime(c)!Exit(back)
      BY <1>2 DEF Runtime!AfterEmpty, back
    <2> QED BY <1>1, <1>2, <2>1, ExitState
  <1>3. CASE ~(rec.exiting \/ stopping)
    <2>1. Runtime(c)!AfterEmpty(rec) = [back EXCEPT !.pc = "waiting"]
      BY <1>3 DEF Runtime!AfterEmpty, back
    <2> QED BY <1>1, <2>1 DEF RunnerStates, Consistent
  <1> QED BY <1>2, <1>3

(* From the capacity check to the fetch. *)
LEMMA BeginFetchState ==
  ASSUME NEW c, RuntimeConfig(c), NEW r, NEW rec \in RunnerStates(c),
         ~rec.drainParked, ~rec.pauseParked, rec.fetch \notin {"running", "done"},
         rec.failed \/ rec.fetch \in {"error", "fatal"} => c.FetchFails
  PROVE  LET out == Runtime(c)!BeginFetch(r, rec) IN
         /\ Consistent(c, out)
         /\ out.pc \in {"waiting", "finally", "fetching"} /\ out.fetch # "done"
         /\ out.fetch = "running" => Cardinality(Runtime(c)!Inflight(r)) + out.room <= c.Concurrency
         /\ ~out.drainParked /\ ~out.pauseParked
         /\ out.exiting = rec.exiting /\ out.failed = rec.failed
         /\ out.pc = "finally" => stopping \/ rec.exiting
  <1> DEFINE n == Cardinality(Runtime(c)!Inflight(r))
             available == c.Concurrency - n
  <1>1. n \in Nat /\ Runtime(c)!Cardinality(Runtime(c)!Inflight(r)) = n
    BY FiniteParts DEF Runtime!Inflight, Runtime!Held
  <1>2. CASE available <= 0
    <2>1. Runtime(c)!BeginFetch(r, rec) = [rec EXCEPT !.pc = "waiting"]
      BY <1>1, <1>2 DEF Runtime!BeginFetch
    <2> QED BY <2>1 DEF RunnerStates, Consistent
  <1>3. CASE ~(available <= 0) /\ Runtime(c)!StopFetching
    <2>1. Runtime(c)!BeginFetch(r, rec) = Runtime(c)!AfterEmpty(rec)
      BY <1>1, <1>3 DEF Runtime!BeginFetch
    <2> QED BY <2>1, AfterEmptyState
  <1>4. CASE ~(available <= 0) /\ ~Runtime(c)!StopFetching
    <2>1. Runtime(c)!BeginFetch(r, rec)
            = [rec EXCEPT !.pc = "fetching", !.fetch = "running", !.room = available]
      BY <1>1, <1>4 DEF Runtime!BeginFetch
    <2>2. available \in 0..c.Concurrency /\ n + available <= c.Concurrency
      BY <1>1, <1>4 DEF RuntimeConfig
    <2> HIDE DEF n, available
    <2> QED BY <2>1, <2>2 DEF RunnerStates, Consistent, n
  <1> QED BY <1>2, <1>3, <1>4

(* In the loop a runner has only what its handlers run. *)
LEMMA OnlyInflight ==
  ASSUME NEW c, NEW r \in c.Runners, RunnersFit(c),
         runner[r].pc \notin {"fetching", "releasing", "emitting"}
  PROVE  Mine(c, r, place) = Runtime(c)!Inflight(r)
  <1>1. Fits(c, r, runner[r], place) /\ PlacesTyped(c, place)
    BY DEF RunnersFit
  <1>2. ASSUME NEW d \in c.Deliveries, place[d].by = r
        PROVE  place[d] = [at |-> "running", by |-> r]
    <2>1. place[d].at = "running"
      BY <1>1, <1>2 DEF Fits, Placed, Consistent
    <2> QED BY <1>1, <1>2, <2>1 DEF PlacesTyped
  <1> QED BY <1>2 DEF Mine, Runtime!Inflight, Runtime!Held

(* One pass over the top of the loop. *)
LEMMA LoopState ==
  ASSUME NEW c, RuntimeConfig(c), NEW r \in c.Runners, RunnersFit(c), runner[r].pc = "loop"
  PROVE  LET out == Runtime(c)!LoopStep(r) IN
         /\ Consistent(c, out)
         /\ out.pc \in {"finally", "waiting", "drainWait", "pauseWait", "resuming", "fetching"}
         /\ out.fetch # "done"
         /\ out.fetch = "running" => Cardinality(Runtime(c)!Inflight(r)) + out.room <= c.Concurrency
         /\ out.drainParked \/ out.pauseParked => Runtime(c)!Inflight(r) = {}
         /\ out.exiting = runner[r].exiting /\ out.failed = runner[r].failed
         /\ out.pc = "finally" => stopping \/ runner[r].exiting
         /\ stopping => out.pc = "finally"
  <1> DEFINE me == runner[r]
  <1>1. me \in RunnerStates(c) /\ me.pc = "loop" /\ me.fetch \notin {"running", "done"}
        /\ ~me.drainParked /\ (me.failed \/ me.fetch \in {"error", "fatal"} => c.FetchFails)
    BY DEF RunnersFit, Fits, Consistent
  <1>2. me.pauseParked => Runtime(c)!Inflight(r) = {}
    BY OnlyInflight DEF RunnersFit, Fits, Placed, Mine
  <1>3. CASE stopping
    <2>1. Runtime(c)!LoopStep(r) = Runtime(c)!Exit(me)
      BY <1>3 DEF Runtime!LoopStep
    <2> QED BY <1>1, <1>3, <2>1, ExitState
  <1>4. CASE ~stopping /\ draining
    <2>1. Runtime(c)!LoopStep(r) = Runtime(c)!DrainStep(r)
      BY <1>4 DEF Runtime!LoopStep
    <2>2. CASE Runtime(c)!Inflight(r) # {}
      <3>1. Runtime(c)!LoopStep(r) = [me EXCEPT !.pc = "waiting"] /\ ~me.pauseParked
        BY <1>2, <2>1, <2>2 DEF Runtime!DrainStep
      <3> QED BY <1>1, <1>4, <3>1 DEF RunnerStates, Consistent
    <2>3. CASE Runtime(c)!Inflight(r) = {}
      <3>1. Runtime(c)!LoopStep(r)
              = [me EXCEPT !.drainParked = TRUE, !.pauseParked = FALSE, !.pc = "drainWait"]
        BY <2>1, <2>3 DEF Runtime!DrainStep
      <3> QED BY <1>1, <1>4, <2>3, <3>1 DEF RunnerStates, Consistent
    <2> QED BY <2>2, <2>3
  <1>5. CASE ~stopping /\ ~draining /\ paused
    <2>1. Runtime(c)!LoopStep(r) = Runtime(c)!PauseStep(r)
      BY <1>5 DEF Runtime!LoopStep
    <2>2. CASE Runtime(c)!Inflight(r) # {}
      <3>1. Runtime(c)!LoopStep(r) = [me EXCEPT !.pc = "waiting"] /\ ~me.pauseParked
        BY <1>2, <2>1, <2>2 DEF Runtime!PauseStep
      <3> QED BY <1>1, <1>5, <3>1 DEF RunnerStates, Consistent
    <2>3. CASE Runtime(c)!Inflight(r) = {}
      <3>1. Runtime(c)!LoopStep(r)
              = [me EXCEPT !.drainParked = FALSE, !.pauseParked = TRUE, !.pc = "pauseWait"]
        BY <2>1, <2>3 DEF Runtime!PauseStep
      <3> QED BY <1>1, <1>5, <2>3, <3>1 DEF RunnerStates, Consistent
    <2> QED BY <2>2, <2>3
  <1>6. CASE ~stopping /\ ~draining /\ ~paused /\ me.pauseParked
    <2>1. Runtime(c)!LoopStep(r) = [me EXCEPT !.drainParked = FALSE, !.pc = "resuming"]
      BY <1>6 DEF Runtime!LoopStep
    <2> QED BY <1>1, <1>2, <1>6, <2>1 DEF RunnerStates, Consistent
  <1>7. CASE ~stopping /\ ~draining /\ ~paused /\ ~me.pauseParked
    <2> DEFINE rec == [me EXCEPT !.drainParked = FALSE]
    <2>1. Runtime(c)!LoopStep(r) = Runtime(c)!BeginFetch(r, rec)
      BY <1>7 DEF Runtime!LoopStep
    <2>2. rec \in RunnerStates(c) /\ ~rec.drainParked /\ ~rec.pauseParked
          /\ rec.fetch \notin {"running", "done"}
          /\ (rec.failed \/ rec.fetch \in {"error", "fatal"} => c.FetchFails)
          /\ rec.exiting = me.exiting /\ rec.failed = me.failed
      BY <1>1, <1>7 DEF RunnerStates
    <2> HIDE DEF rec, me
    <2>3. LET out == Runtime(c)!BeginFetch(r, rec) IN
         /\ Consistent(c, out)
         /\ out.pc \in {"waiting", "finally", "fetching"} /\ out.fetch # "done"
         /\ out.fetch = "running" => Cardinality(Runtime(c)!Inflight(r)) + out.room <= c.Concurrency
         /\ ~out.drainParked /\ ~out.pauseParked
         /\ out.exiting = rec.exiting /\ out.failed = rec.failed
         /\ out.pc = "finally" => stopping \/ rec.exiting
      BY <2>2, BeginFetchState
    <2> QED BY <1>7, <2>1, <2>2, <2>3, Zenon DEF me
  <1> QED BY <1>3, <1>4, <1>5, <1>6, <1>7

(* CancelledError at the current await of a runner. *)
LEMMA CancelState ==
  ASSUME NEW c, NEW r \in c.Runners, RunnersFit(c)
  PROVE  LET me == runner[r]
             out == Runtime(c)!Cancelled(r) IN
         /\ Consistent(c, out) /\ ~out.drainParked /\ ~out.pauseParked
         /\ me.pc \in {"unborn", "done"} => out = me
         /\ me.pc \notin {"unborn", "done"} => out.pc \in {"finally", "done", "backoff", "releasing"}
         /\ me.pc \notin {"unborn", "finally", "done"} => out.pc # "done"
         /\ me.pc \in {"loop", "finally"} => out.pc \in {"finally", "done"}
         /\ me.fetch = "done" /\ out.fetch # "done" => me.pc = "releasing" /\ me.exiting
         /\ out.fetch = "running" => me.fetch = "running" /\ out.room = me.room
         /\ out.failed => me.failed
  <1> DEFINE me == runner[r]
             out == Runtime(c)!Cancelled(r)
  <1>1. me \in RunnerStates(c) /\ Consistent(c, me) /\ (me.failed => c.FetchFails)
    BY DEF RunnersFit, Fits, Consistent
  <1>2. CASE me.pc \in {"unborn", "done"}
    <2>1. out = me
      BY <1>2 DEF Runtime!Cancelled
    <2> QED BY <1>1, <1>2, <2>1 DEF Consistent
  <1>3. CASE me.pc = "finally"
    <2>1. out = [Runtime(c)!Finished(me) EXCEPT !.failed = FALSE]
      BY <1>3 DEF Runtime!Cancelled
    <2> QED BY <1>1, <1>3, <2>1 DEF Consistent, RunnerStates, Runtime!Finished
  <1>4. CASE me.pc = "backoff" /\ ~me.exiting
    <2>1. out = [me EXCEPT !.exiting = TRUE]
      BY <1>4 DEF Runtime!Cancelled
    <2> QED BY <1>1, <1>4, <2>1 DEF Consistent, RunnerStates
  <1>5. CASE me.pc = "fetching" /\ ~(me.fetch = "running" /\ c.CancelSafe)
    <2>1. out = [me EXCEPT !.pc = "releasing", !.exiting = TRUE]
      BY <1>5 DEF Runtime!Cancelled
    <2> QED BY <1>1, <1>5, <2>1 DEF Consistent, RunnerStates
  <1>6. CASE me.pc = "releasing" /\ me.fetch # "running" /\ ~me.exiting
    <2>1. out = [me EXCEPT !.exiting = TRUE]
      BY <1>6 DEF Runtime!Cancelled
    <2> QED BY <1>1, <1>6, <2>1 DEF Consistent, RunnerStates
  <1>7. CASE /\ me.pc \notin {"unborn", "done", "finally"}
             /\ ~(me.pc = "backoff" /\ ~me.exiting)
             /\ ~(me.pc = "fetching" /\ ~(me.fetch = "running" /\ c.CancelSafe))
             /\ ~(me.pc = "releasing" /\ me.fetch # "running" /\ ~me.exiting)
    <2>1. out = Runtime(c)!Exit(me)
      BY <1>7 DEF Runtime!Cancelled
    <2>2. me.fetch = "done" => me.pc = "releasing" /\ me.exiting
      BY <1>1, <1>7 DEF Consistent
    <2> HIDE DEF out, me
    <2>3. Consistent(c, out) /\ out.pc = "finally" /\ out.fetch = "none" /\ ~out.drainParked
          /\ ~out.pauseParked /\ out.failed = me.failed
      BY <1>1, <2>1, ExitState
    <2> QED BY <1>7, <2>2, <2>3 DEF me, out
  <1> QED BY <1>2, <1>3, <1>4, <1>5, <1>6, <1>7
--------------------------------------------------------------------------------
(* A runner that stays with what it has, or gives some of it away. *)
LEMMA StillFits ==
  ASSUME NEW c, RuntimeConfig(c), NEW r, NEW rec, NEW pl, NEW new,
         Fits(c, r, rec, pl),
         \A d \in c.Deliveries : new[d].by = r => new[d] = pl[d]
  PROVE  Fits(c, r, rec, new)
  <1>1. Mine(c, r, new) \subseteq Mine(c, r, pl) /\ Mine(c, r, pl) \subseteq c.Deliveries
    BY DEF Mine
  <1>2. /\ Cardinality(Mine(c, r, new)) \in Nat /\ Cardinality(Mine(c, r, pl)) \in Nat
        /\ Cardinality(Mine(c, r, new)) <= Cardinality(Mine(c, r, pl))
    BY <1>1, FiniteParts, FS_Subset
  <1>3. rec.fetch = "running" => rec.room \in Nat
    BY DEF Fits, Consistent, RunnerStates, RuntimeConfig
  <1>4. Bounded(c, r, rec, new)
    BY <1>2, <1>3 DEF Bounded, Fits, RuntimeConfig
  <1>5. Placed(c, r, rec, new)
    BY DEF Placed, Fits
  <1> QED BY <1>4, <1>5 DEF Fits

(* A runner that moves on with what it has. *)
LEMMA MovesOn ==
  ASSUME NEW c, RuntimeConfig(c), NEW r, NEW rec, NEW pl, NEW new,
         Fits(c, r, rec, pl), Consistent(c, new),
         \A d \in c.Deliveries : pl[d].by = r =>
           /\ pl[d].at = "fetched" => new.fetch = "done"
           /\ pl[d].at = "claimed" => new.pc = "emitting"
           /\ new.pc # "unborn" /\ ~new.drainParked /\ ~new.pauseParked,
         new.fetch = "running" => \/ rec.fetch = "running" /\ new.room = rec.room
                                  \/ Cardinality(Mine(c, r, pl)) + new.room <= c.Concurrency
  PROVE  Fits(c, r, new, pl)
  <1>1. Placed(c, r, new, pl)
    BY DEF Placed, Fits
  <1>2. Bounded(c, r, new, pl)
    BY DEF Bounded, Fits
  <1> QED BY <1>1, <1>2 DEF Fits

(* A step of runner r: what it may do to the runner's record and to the     *)
(* deliveries.                                                              *)
Ran(c, r) ==
  /\ runner' = [runner EXCEPT ![r] = runner'[r]]
  /\ UNCHANGED <<stopping, draining, paused, listed, tracked, live, serve, command>>
  /\ runner[r].pc \notin {"unborn", "done"} /\ runner'[r].pc # "unborn"
  /\ runner'[r].exiting = runner[r].exiting
  /\ runner'[r].pc = "finally" =>
       runner[r].pc = "finally" \/ stopping \/ runner[r].exiting \/ runner'[r].failed
  /\ runner'[r].pc = "done" => /\ runner[r].pc = "finally" /\ place' = place
                               /\ Runtime(c)!Inflight(r) = {} \/ c.DrainTimesOut
  /\ stopping /\ runner[r].pc = "loop" => runner'[r].pc = "finally"
  /\ \A d \in c.Deliveries :
       \/ place'[d] = place[d]
       \/ place[d].by = r /\ place'[d].by \in {r, c.Nobody}
       \/ place[d].by = c.Nobody /\ place'[d].by = r /\ runner[r].fetch = "running"
  /\ \A d \in c.Deliveries :
       place'[d].at = "lost" => place[d].at = "lost" \/ c.CancelSafe \/ ~c.GivesBack
  /\ PlacesTyped(c, place') /\ Fits(c, r, runner'[r], place')

(* A step of a runner that leaves the deliveries where they are. *)
LEMMA Advances ==
  ASSUME NEW c, RuntimeConfig(c), NEW r \in c.Runners, RunnersFit(c), NEW b,
         runner' = [runner EXCEPT ![r] = b], place' = place,
         UNCHANGED <<stopping, draining, paused, listed, tracked, live, serve, command>>,
         Consistent(c, b), runner[r].pc \notin {"unborn", "done"}, b.pc # "unborn",
         \A d \in c.Deliveries : place[d].by = r =>
           /\ place[d].at = "fetched" => b.fetch = "done"
           /\ place[d].at = "claimed" => b.pc = "emitting"
           /\ ~b.drainParked /\ ~b.pauseParked,
         b.fetch = "running" => \/ runner[r].fetch = "running" /\ b.room = runner[r].room
                                \/ Cardinality(Mine(c, r, place)) + b.room <= c.Concurrency,
         b.exiting = runner[r].exiting,
         b.pc = "finally" => runner[r].pc = "finally" \/ stopping \/ runner[r].exiting \/ b.failed,
         b.pc = "done" => runner[r].pc = "finally" /\ (Runtime(c)!Inflight(r) = {} \/ c.DrainTimesOut),
         stopping /\ runner[r].pc = "loop" => b.pc = "finally"
  PROVE  Ran(c, r)
  <1>1. runner'[r] = b /\ runner' = [runner EXCEPT ![r] = runner'[r]]
    BY DEF RunnersFit
  <1>2. Fits(c, r, b, place)
    BY MovesOn DEF RunnersFit
  <1>3. PlacesTyped(c, place') /\ Fits(c, r, runner'[r], place')
    BY <1>1, <1>2 DEF RunnersFit
  <1> QED BY <1>1, <1>3 DEF Ran

(* What a runner has outside _fetch_deliveries and before its handlers start. *)
LEMMA NoneFetched ==
  ASSUME NEW c, NEW r \in c.Runners, RunnersFit(c),
         NEW d \in c.Deliveries, place[d].by = r
  PROVE  /\ place[d].at \in {"fetched", "claimed", "running"}
         /\ place[d].at = "fetched" => runner[r].fetch = "done" /\ runner[r].pc \in {"fetching", "releasing"}
         /\ place[d].at = "claimed" => runner[r].pc = "emitting"
         /\ runner[r].pc # "unborn" /\ ~runner[r].drainParked /\ ~runner[r].pauseParked
         /\ place[d] = [at |-> place[d].at, by |-> r]
  <1>1. Fits(c, r, runner[r], place) /\ PlacesTyped(c, place)
    BY DEF RunnersFit
  <1>2. place[d] = [at |-> place[d].at, by |-> r]
    BY <1>1 DEF PlacesTyped
  <1> QED BY <1>1, <1>2 DEF Fits, Consistent, Placed

(* Who is with a runner, and where. *)
LEMMA HeldIs ==
  ASSUME NEW c, PlacesTyped(c, place), NEW r, NEW k
  PROVE  \A d \in c.Deliveries : d \in Runtime(c)!Held(r, k) <=> place[d].by = r /\ place[d].at = k
  BY DEF Runtime!Held, PlacesTyped

(* The top of the loop: a runner parks, stops, waits for room or fetches. *)
LEMMA LoopRan ==
  ASSUME NEW c, RuntimeConfig(c), NEW r \in c.Runners, RunnersFit(c), Runtime(c)!Loop(r)
  PROVE  Ran(c, r)
  <1> DEFINE b == Runtime(c)!LoopStep(r)
  <1>1. runner[r].pc = "loop" /\ runner' = [runner EXCEPT ![r] = b] /\ place' = place
        /\ UNCHANGED <<stopping, draining, paused, listed, tracked, live, serve, command>>
    BY DEF Runtime!Loop, Runtime!Update, Runtime!appVars
  <1>2. Mine(c, r, place) = Runtime(c)!Inflight(r)
    BY <1>1, OnlyInflight
  <1>3. /\ Consistent(c, b)
        /\ b.pc \in {"finally", "waiting", "drainWait", "pauseWait", "resuming", "fetching"}
        /\ b.fetch = "running" => Cardinality(Mine(c, r, place)) + b.room <= c.Concurrency
        /\ b.drainParked \/ b.pauseParked => Mine(c, r, place) = {}
        /\ b.exiting = runner[r].exiting
        /\ b.pc = "finally" => stopping \/ runner[r].exiting
        /\ stopping => b.pc = "finally"
    BY <1>1, <1>2, LoopState
  <1> HIDE DEF b
  <1>4. \A d \in c.Deliveries : place[d].by = r =>
           /\ place[d].at = "fetched" => b.fetch = "done"
           /\ place[d].at = "claimed" => b.pc = "emitting"
           /\ ~b.drainParked /\ ~b.pauseParked
    BY <1>1, <1>3, NoneFetched DEF Mine
  <1> QED BY <1>1, <1>3, <1>4, Advances

(* A runner that waited for room or for a resume looks again. *)
LEMMA WakeUpRan ==
  ASSUME NEW c, RuntimeConfig(c), NEW r \in c.Runners, RunnersFit(c), Runtime(c)!WakeUp(r)
  PROVE  Ran(c, r)
  <1> DEFINE b == [runner[r] EXCEPT !.pc = "loop"]
  <1>1. runner[r].pc \in {"waiting", "pauseWait"} /\ runner' = [runner EXCEPT ![r] = b] /\ place' = place
        /\ UNCHANGED <<stopping, draining, paused, listed, tracked, live, serve, command>>
    BY DEF Runtime!WakeUp, Runtime!Update, Runtime!appVars
  <1>2. runner[r] \in RunnerStates(c) /\ Consistent(c, runner[r])
    BY DEF RunnersFit, Fits
  <1>3. /\ Consistent(c, b) /\ b.pc = "loop" /\ b.fetch \notin {"running", "done"}
        /\ b.exiting = runner[r].exiting /\ b.drainParked = runner[r].drainParked
        /\ b.pauseParked = runner[r].pauseParked
    BY <1>1, <1>2 DEF Consistent, RunnerStates
  <1> HIDE DEF b
  <1>4. \A d \in c.Deliveries : place[d].by = r =>
           /\ place[d].at = "fetched" => b.fetch = "done"
           /\ place[d].at = "claimed" => b.pc = "emitting"
           /\ ~b.drainParked /\ ~b.pauseParked
    BY <1>1, <1>3, NoneFetched
  <1> QED BY <1>1, <1>3, <1>4, Advances

(* A parked runner leaves its wait at a shutdown. *)
LEMMA ParkEndsRan ==
  ASSUME NEW c, RuntimeConfig(c), NEW r \in c.Runners, RunnersFit(c), Runtime(c)!ParkEnds(r)
  PROVE  Ran(c, r)
  <1> DEFINE b == Runtime(c)!Exit(runner[r])
  <1>1. runner[r].pc \in {"drainWait", "pauseWait"} /\ stopping /\ runner' = [runner EXCEPT ![r] = b] /\ place' = place
        /\ UNCHANGED <<stopping, draining, paused, listed, tracked, live, serve, command>>
    BY DEF Runtime!ParkEnds, Runtime!Update, Runtime!appVars
  <1>2. runner[r] \in RunnerStates(c) /\ Consistent(c, runner[r])
    BY DEF RunnersFit, Fits
  <1>3. /\ Consistent(c, b) /\ b.pc = "finally" /\ b.fetch = "none"
        /\ b.exiting = runner[r].exiting /\ ~b.drainParked /\ ~b.pauseParked
    BY <1>2, ExitState DEF Consistent
  <1> HIDE DEF b
  <1>4. \A d \in c.Deliveries : place[d].by = r =>
           /\ place[d].at = "fetched" => b.fetch = "done"
           /\ place[d].at = "claimed" => b.pc = "emitting"
           /\ ~b.drainParked /\ ~b.pauseParked
    BY <1>1, <1>3, NoneFetched
  <1> QED BY <1>1, <1>3, <1>4, Advances

(* A runner goes on after a pause. *)
LEMMA ResumedRan ==
  ASSUME NEW c, RuntimeConfig(c), NEW r \in c.Runners, RunnersFit(c), Runtime(c)!Resumed(r)
  PROVE  Ran(c, r)
  <1> DEFINE b == Runtime(c)!BeginFetch(r, [runner[r] EXCEPT !.pauseParked = FALSE])
  <1>1. runner[r].pc = "resuming" /\ runner' = [runner EXCEPT ![r] = b] /\ place' = place
        /\ UNCHANGED <<stopping, draining, paused, listed, tracked, live, serve, command>>
    BY DEF Runtime!Resumed, Runtime!Update, Runtime!appVars
  <1>2. runner[r] \in RunnerStates(c) /\ Consistent(c, runner[r])
    BY DEF RunnersFit, Fits
  <1> DEFINE rec == [runner[r] EXCEPT !.pauseParked = FALSE]
  <1>a. rec \in RunnerStates(c) /\ ~rec.drainParked /\ ~rec.pauseParked
        /\ rec.fetch \notin {"running", "done"} /\ rec.exiting = runner[r].exiting
        /\ (rec.failed \/ rec.fetch \in {"error", "fatal"} => c.FetchFails)
    BY <1>1, <1>2 DEF Consistent, RunnerStates
  <1>b. Mine(c, r, place) = Runtime(c)!Inflight(r)
    BY <1>1, OnlyInflight
  <1>3. /\ Consistent(c, b) /\ b.pc \in {"waiting", "finally", "fetching"}
        /\ b.fetch = "running" => Cardinality(Mine(c, r, place)) + b.room <= c.Concurrency
        /\ b.exiting = runner[r].exiting /\ ~b.drainParked /\ ~b.pauseParked
        /\ b.pc = "finally" => stopping \/ runner[r].exiting
    <2> HIDE DEF rec
    <2>1. b = Runtime(c)!BeginFetch(r, rec)
      BY DEF rec
    <2> QED BY <1>a, <1>b, <2>1, BeginFetchState
  <1> HIDE DEF b
  <1>4. \A d \in c.Deliveries : place[d].by = r =>
           /\ place[d].at = "fetched" => b.fetch = "done"
           /\ place[d].at = "claimed" => b.pc = "emitting"
           /\ ~b.drainParked /\ ~b.pauseParked
    BY <1>1, <1>3, NoneFetched
  <1> QED BY <1>1, <1>3, <1>4, Advances

(* The watcher of a stop control wakes a runner that is fetching. *)
LEMMA WatcherFiresRan ==
  ASSUME NEW c, RuntimeConfig(c), NEW r \in c.Runners, RunnersFit(c), Runtime(c)!WatcherFires(r)
  PROVE  Ran(c, r)
  <1> DEFINE b == [runner[r] EXCEPT !.watch = TRUE]
  <1>1. runner[r].pc = "fetching" /\ runner' = [runner EXCEPT ![r] = b] /\ place' = place
        /\ UNCHANGED <<stopping, draining, paused, listed, tracked, live, serve, command>>
    BY DEF Runtime!WatcherFires, Runtime!Update, Runtime!appVars
  <1>2. runner[r] \in RunnerStates(c) /\ Consistent(c, runner[r])
    BY DEF RunnersFit, Fits
  <1>3. /\ Consistent(c, b) /\ b.pc = "fetching" /\ b.fetch = runner[r].fetch /\ b.room = runner[r].room
        /\ b.exiting = runner[r].exiting /\ ~b.drainParked /\ ~b.pauseParked
    BY <1>1, <1>2 DEF Consistent, RunnerStates
  <1> HIDE DEF b
  <1>4. \A d \in c.Deliveries : place[d].by = r =>
           /\ place[d].at = "fetched" => b.fetch = "done"
           /\ place[d].at = "claimed" => b.pc = "emitting"
           /\ ~b.drainParked /\ ~b.pauseParked
    BY <1>1, <1>3, NoneFetched
  <1> QED BY <1>1, <1>3, <1>4, Advances

(* A stop control won the race against a fetch that must not be cut off. *)
LEMMA AwaitFetchRan ==
  ASSUME NEW c, RuntimeConfig(c), NEW r \in c.Runners, RunnersFit(c), Runtime(c)!AwaitFetch(r)
  PROVE  Ran(c, r)
  <1> DEFINE b == [runner[r] EXCEPT !.pc = "releasing"]
  <1>1. runner[r].pc = "fetching" /\ runner' = [runner EXCEPT ![r] = b] /\ place' = place
        /\ UNCHANGED <<stopping, draining, paused, listed, tracked, live, serve, command>>
    BY DEF Runtime!AwaitFetch, Runtime!Update, Runtime!appVars
  <1>2. runner[r] \in RunnerStates(c) /\ Consistent(c, runner[r])
    BY DEF RunnersFit, Fits
  <1>3. /\ Consistent(c, b) /\ b.pc = "releasing" /\ b.fetch = runner[r].fetch /\ b.room = runner[r].room
        /\ b.exiting = runner[r].exiting /\ ~b.drainParked /\ ~b.pauseParked
    BY <1>1, <1>2 DEF Consistent, RunnerStates
  <1> HIDE DEF b
  <1>4. \A d \in c.Deliveries : place[d].by = r =>
           /\ place[d].at = "fetched" => b.fetch = "done"
           /\ place[d].at = "claimed" => b.pc = "emitting"
           /\ ~b.drainParked /\ ~b.pauseParked
    BY <1>1, <1>3, NoneFetched
  <1> QED BY <1>1, <1>3, <1>4, Advances

(* The backoff after a failed fetch is over. *)
LEMMA BackoffEndsRan ==
  ASSUME NEW c, RuntimeConfig(c), NEW r \in c.Runners, RunnersFit(c), Runtime(c)!BackoffEnds(r)
  PROVE  Ran(c, r)
  <1> DEFINE b == Runtime(c)!AfterEmpty(runner[r])
  <1>1. runner[r].pc = "backoff" /\ runner' = [runner EXCEPT ![r] = b] /\ place' = place
        /\ UNCHANGED <<stopping, draining, paused, listed, tracked, live, serve, command>>
    BY DEF Runtime!BackoffEnds, Runtime!Update, Runtime!appVars
  <1>2. runner[r] \in RunnerStates(c) /\ Consistent(c, runner[r])
    BY DEF RunnersFit, Fits
  <1>3. /\ Consistent(c, b) /\ b.pc \in {"waiting", "finally"} /\ b.fetch = "none"
        /\ b.exiting = runner[r].exiting /\ ~b.drainParked /\ ~b.pauseParked
        /\ b.pc = "finally" => stopping \/ runner[r].exiting
    BY <1>1, <1>2, AfterEmptyState DEF Consistent
  <1> HIDE DEF b
  <1>4. \A d \in c.Deliveries : place[d].by = r =>
           /\ place[d].at = "fetched" => b.fetch = "done"
           /\ place[d].at = "claimed" => b.pc = "emitting"
           /\ ~b.drainParked /\ ~b.pauseParked
    BY <1>1, <1>3, NoneFetched
  <1> QED BY <1>1, <1>3, <1>4, Advances

(* A runner has drained its handlers, or given up on them. *)
LEMMA DrainEndsRan ==
  ASSUME NEW c, RuntimeConfig(c), NEW r \in c.Runners, RunnersFit(c), Runtime(c)!DrainEnds(r)
  PROVE  Ran(c, r)
  <1> DEFINE b == Runtime(c)!Finished(runner[r])
  <1>1. runner[r].pc = "finally" /\ (Runtime(c)!Inflight(r) = {} \/ c.DrainTimesOut) /\ runner' = [runner EXCEPT ![r] = b] /\ place' = place
        /\ UNCHANGED <<stopping, draining, paused, listed, tracked, live, serve, command>>
    BY DEF Runtime!DrainEnds, Runtime!Update, Runtime!appVars
  <1>2. runner[r] \in RunnerStates(c) /\ Consistent(c, runner[r])
    BY DEF RunnersFit, Fits
  <1>3. /\ Consistent(c, b) /\ b.pc = "done" /\ b.fetch \notin {"running", "done"}
        /\ b.exiting = runner[r].exiting /\ ~b.drainParked /\ ~b.pauseParked
    BY <1>1, <1>2 DEF Consistent, RunnerStates, Runtime!Finished
  <1> HIDE DEF b
  <1>4. \A d \in c.Deliveries : place[d].by = r =>
           /\ place[d].at = "fetched" => b.fetch = "done"
           /\ place[d].at = "claimed" => b.pc = "emitting"
           /\ ~b.drainParked /\ ~b.pauseParked
    BY <1>1, <1>3, NoneFetched
  <1> QED BY <1>1, <1>3, <1>4, Advances

(* A fetch ends with an exception. *)
LEMMA FetchRaisesRan ==
  ASSUME NEW c, RuntimeConfig(c), NEW r \in c.Runners, RunnersFit(c), Runtime(c)!FetchRaises(r)
  PROVE  Ran(c, r)
  <1>1. PICK e \in {"error", "fatal"} : runner' = [runner EXCEPT ![r] = [runner[r] EXCEPT !.fetch = e]]
    BY DEF Runtime!FetchRaises, Runtime!Update
  <1>2. runner[r].fetch = "running" /\ c.FetchFails /\ place' = place
        /\ UNCHANGED <<stopping, draining, paused, listed, tracked, live, serve, command>>
    BY DEF Runtime!FetchRaises, Runtime!appVars
  <1> DEFINE b == [runner[r] EXCEPT !.fetch = e]
  <1>3. runner[r] \in RunnerStates(c) /\ Consistent(c, runner[r])
    BY DEF RunnersFit, Fits
  <1>4. /\ Consistent(c, b) /\ b.pc = runner[r].pc /\ b.fetch # "running"
        /\ runner[r].pc \in {"fetching", "releasing"}
        /\ b.exiting = runner[r].exiting /\ ~b.drainParked /\ ~b.pauseParked
    BY <1>2, <1>3 DEF Consistent, RunnerStates
  <1>5. runner' = [runner EXCEPT ![r] = b]
    BY <1>1
  <1> HIDE DEF b
  <1>6. \A d \in c.Deliveries : place[d].by = r =>
           /\ place[d].at = "fetched" => b.fetch = "done"
           /\ place[d].at = "claimed" => b.pc = "emitting"
           /\ ~b.drainParked /\ ~b.pauseParked
    BY <1>2, <1>4, NoneFetched
  <1> QED BY <1>2, <1>4, <1>5, <1>6, Advances

(* The outcome of a fetch that failed. *)
LEMMA ResolvedState ==
  ASSUME NEW c, NEW rec \in RunnerStates(c), Consistent(c, rec), rec.fetch \in {"error", "fatal"},
         rec.pc \in {"fetching", "releasing"}
  PROVE  LET out == Runtime(c)!Resolved(rec) IN
         /\ Consistent(c, out) /\ out.pc \in {"backoff", "finally"}
         /\ out.fetch \notin {"running", "done"} /\ out.exiting = rec.exiting
         /\ ~out.drainParked /\ ~out.pauseParked
         /\ out.pc = "finally" => out.failed
  <1>1. CASE rec.fetch = "error"
    <2>1. Runtime(c)!Resolved(rec) = [rec EXCEPT !.pc = "backoff"]
      BY <1>1 DEF Runtime!Resolved
    <2> QED BY <1>1, <2>1 DEF Consistent, RunnerStates
  <1>2. CASE rec.fetch = "fatal"
    <2> DEFINE x == Runtime(c)!Exit(rec)
    <2>1. Runtime(c)!Resolved(rec) = [x EXCEPT !.failed = TRUE]
      BY <1>2 DEF Runtime!Resolved
    <2>2. Consistent(c, x) /\ x.pc = "finally" /\ x.fetch = "none" /\ ~x.drainParked /\ ~x.pauseParked
          /\ x.exiting = rec.exiting /\ c.FetchFails
      BY <1>2, ExitState DEF Consistent
    <2> HIDE DEF x
    <2> QED BY <2>1, <2>2 DEF Consistent, RunnerStates
  <1> QED BY <1>1, <1>2

(* Where the deliveries are after some of them moved to p. *)
LEMMA MovedTo ==
  ASSUME NEW c, PlacesTyped(c, place), NEW S, NEW p, Runtime(c)!Move(S, p),
         p \in [at : {"queue", "fetched", "claimed", "running", "settled", "lost"},
                by : c.Runners \cup {c.Nobody}],
         p.by = c.Nobody <=> p.at \in {"queue", "settled", "lost"}
  PROVE  /\ PlacesTyped(c, place')
         /\ \A d \in c.Deliveries : place'[d] = IF d \in S THEN p ELSE place[d]
  <1>1. \A d \in c.Deliveries : place'[d] = IF d \in S THEN p ELSE place[d]
    BY DEF Runtime!Move
  <1>2. place' \in [c.Deliveries -> [at : {"queue", "fetched", "claimed", "running", "settled", "lost"},
                                     by : c.Runners \cup {c.Nobody}]]
    BY DEF Runtime!Move, PlacesTyped
  <1> QED BY <1>1, <1>2 DEF PlacesTyped

(* A step of a runner that moves some deliveries. *)
LEMMA Carries ==
  ASSUME NEW c, RuntimeConfig(c), NEW r \in c.Runners, RunnersFit(c), NEW b, NEW S, NEW p,
         runner' = [runner EXCEPT ![r] = b], Runtime(c)!Move(S, p),
         UNCHANGED <<stopping, draining, paused, listed, tracked, live, serve, command>>,
         p \in [at : {"queue", "fetched", "claimed", "running", "settled", "lost"},
                by : c.Runners \cup {c.Nobody}],
         p.by \in {r, c.Nobody}, p.by = c.Nobody <=> p.at \in {"queue", "settled", "lost"},
         p.at = "lost" => c.CancelSafe \/ ~c.GivesBack,
         \A d \in S : d \in c.Deliveries /\ place[d].by = r,
         Consistent(c, b), runner[r].pc \notin {"unborn", "done", "loop"}, b.pc # "unborn", b.pc # "done",
         ~b.drainParked, ~b.pauseParked, b.fetch # "running",
         p.at = "fetched" => b.fetch = "done",
         p.at = "claimed" => b.pc = "emitting",
         \A d \in c.Deliveries \ S : place[d].by = r =>
           /\ place[d].at = "fetched" => b.fetch = "done"
           /\ place[d].at = "claimed" => b.pc = "emitting",
         b.exiting = runner[r].exiting,
         b.pc = "finally" => runner[r].pc = "finally" \/ stopping \/ runner[r].exiting \/ b.failed
  PROVE  Ran(c, r)
  <1>1. runner'[r] = b /\ runner' = [runner EXCEPT ![r] = runner'[r]]
    BY DEF RunnersFit
  <1>2. /\ PlacesTyped(c, place) /\ PlacesTyped(c, place')
        /\ \A d \in c.Deliveries : place'[d] = IF d \in S THEN p ELSE place[d]
    BY MovedTo DEF RunnersFit
  <1>3. Fits(c, r, runner[r], place)
    BY DEF RunnersFit
  <1>4. Placed(c, r, b, place')
    BY <1>2, <1>3 DEF Placed, Fits, PlacesTyped, RuntimeConfig
  <1>5. Bounded(c, r, b, place')
    <2>1. Mine(c, r, place') \subseteq Mine(c, r, place) /\ Mine(c, r, place) \subseteq c.Deliveries
      BY <1>2 DEF Mine
    <2>2. Cardinality(Mine(c, r, place')) \in Nat /\ Cardinality(Mine(c, r, place)) \in Nat
          /\ Cardinality(Mine(c, r, place')) <= Cardinality(Mine(c, r, place))
      BY <2>1, FiniteParts, FS_Subset
    <2> QED BY <1>3, <2>2 DEF Fits, Bounded, RuntimeConfig
  <1>6. Fits(c, r, runner'[r], place')
    BY <1>1, <1>4, <1>5 DEF Fits
  <1>7. \A d \in c.Deliveries : place'[d] = place[d] \/ (place[d].by = r /\ place'[d].by \in {r, c.Nobody})
    BY <1>2
  <1>8. \A d \in c.Deliveries :
          place'[d].at = "lost" => place[d].at = "lost" \/ c.CancelSafe \/ ~c.GivesBack
    BY <1>2
  <1> QED BY <1>1, <1>2, <1>6, <1>7, <1>8 DEF Ran

(* A fetch is cut off where the source allows it. *)
LEMMA AbandonFetchRan ==
  ASSUME NEW c, RuntimeConfig(c), NEW r \in c.Runners, RunnersFit(c), Runtime(c)!AbandonFetch(r)
  PROVE  Ran(c, r)
  <1> DEFINE b == Runtime(c)!AfterEmpty(runner[r])
             S == Runtime(c)!Held(r, "fetched")
             p == Runtime(c)!Lost
  <1>1. runner[r].pc = "fetching" /\ c.CancelSafe /\ runner' = [runner EXCEPT ![r] = b]
        /\ Runtime(c)!Move(S, p)
        /\ UNCHANGED <<stopping, draining, paused, listed, tracked, live, serve, command>>
    BY DEF Runtime!AbandonFetch, Runtime!Update, Runtime!appVars
  <1>2. runner[r] \in RunnerStates(c) /\ Consistent(c, runner[r])
    BY DEF RunnersFit, Fits
  <1>3. /\ Consistent(c, b) /\ b.pc \in {"waiting", "finally"} /\ b.fetch = "none"
        /\ b.exiting = runner[r].exiting /\ ~b.drainParked /\ ~b.pauseParked
        /\ b.pc = "finally" => stopping \/ runner[r].exiting
    BY <1>1, <1>2, AfterEmptyState DEF Consistent
  <1>4. \A d \in S : d \in c.Deliveries /\ place[d].by = r
    BY DEF Runtime!Held
  <1>5. \A d \in c.Deliveries \ S : place[d].by = r => place[d].at \notin {"fetched", "claimed"}
    BY <1>1, NoneFetched, HeldIs DEF RunnersFit
  <1>6. p = [at |-> "lost", by |-> c.Nobody]
    BY DEF Runtime!Lost
  <1> HIDE DEF b, S, p
  <1> QED BY <1>1, <1>3, <1>4, <1>5, <1>6, Carries

(* The handlers of what was fetched start. *)
LEMMA StartHandlersRan ==
  ASSUME NEW c, RuntimeConfig(c), NEW r \in c.Runners, RunnersFit(c), Runtime(c)!StartHandlers(r)
  PROVE  Ran(c, r)
  <1> DEFINE b == [runner[r] EXCEPT !.pc = "loop"]
             S == Runtime(c)!Held(r, "claimed")
             p == [at |-> "running", by |-> r]
  <1>1. runner[r].pc = "emitting" /\ runner' = [runner EXCEPT ![r] = b] /\ Runtime(c)!Move(S, p)
        /\ UNCHANGED <<stopping, draining, paused, listed, tracked, live, serve, command>>
    BY DEF Runtime!StartHandlers, Runtime!Update, Runtime!appVars
  <1>2. runner[r] \in RunnerStates(c) /\ Consistent(c, runner[r])
    BY DEF RunnersFit, Fits
  <1>3. /\ Consistent(c, b) /\ b.pc = "loop" /\ b.fetch \notin {"running", "done"}
        /\ b.exiting = runner[r].exiting /\ ~b.drainParked /\ ~b.pauseParked
    BY <1>1, <1>2 DEF Consistent, RunnerStates
  <1>4. \A d \in S : d \in c.Deliveries /\ place[d].by = r
    BY DEF Runtime!Held
  <1>5. \A d \in c.Deliveries \ S : place[d].by = r => place[d].at \notin {"fetched", "claimed"}
    BY <1>1, NoneFetched, HeldIs DEF RunnersFit
  <1>6. p.at = "running" /\ p.by = r /\ r # c.Nobody
        /\ p \in [at : {"queue", "fetched", "claimed", "running", "settled", "lost"},
                  by : c.Runners \cup {c.Nobody}]
    BY DEF RuntimeConfig
  <1> HIDE DEF b, S, p
  <1>7. /\ p.by \in {r, c.Nobody} /\ p.at # "lost" /\ p.at # "fetched" /\ p.at # "claimed"
        /\ p.by = c.Nobody <=> p.at \in {"queue", "settled", "lost"}
    BY <1>6
  <1>8. runner[r].pc \notin {"unborn", "done", "loop"}
    BY <1>1
  <1>9. b.pc # "unborn" /\ b.pc # "done" /\ b.pc # "finally" /\ b.fetch # "running"
    BY <1>3
  <1> QED BY <1>1, <1>3, <1>4, <1>5, <1>6, <1>7, <1>8, <1>9, Carries, ZenonT(60)

(* One delivery that was not started is given back. *)
LEMMA ReleaseOneRan ==
  ASSUME NEW c, RuntimeConfig(c), NEW r \in c.Runners, RunnersFit(c), Runtime(c)!ReleaseOne(r)
  PROVE  Ran(c, r)
  <1> DEFINE b == runner[r]
             p == IF c.GivesBack THEN Runtime(c)!InQueue ELSE Runtime(c)!Lost
  <1>1. b.pc = "releasing" /\ b.fetch = "done"
        /\ UNCHANGED <<stopping, draining, paused, listed, tracked, live, serve, command>>
    BY DEF Runtime!ReleaseOne, Runtime!appVars
  <1>2. PICK d \in Runtime(c)!Held(r, "fetched") : Runtime(c)!Move({d}, p)
    BY DEF Runtime!ReleaseOne
  <1>3. runner' = [runner EXCEPT ![r] = b]
    BY DEF RunnersFit, Runtime!ReleaseOne
  <1>4. Consistent(c, b) /\ ~b.drainParked /\ ~b.pauseParked
    BY <1>1 DEF RunnersFit, Fits, Consistent
  <1>5. d \in c.Deliveries /\ place[d].by = r
    BY DEF Runtime!Held
  <1>6. p.by = c.Nobody /\ p.at \in {"queue", "lost"} /\ (p.at = "lost" => ~c.GivesBack)
        /\ p \in [at : {"queue", "fetched", "claimed", "running", "settled", "lost"},
                  by : c.Runners \cup {c.Nobody}]
    BY DEF Runtime!InQueue, Runtime!Lost
  <1>7. \A e \in c.Deliveries : place[e].by = r => place[e].at # "claimed"
    BY <1>1, NoneFetched
  <1> DEFINE S == {d}
  <1>8. Runtime(c)!Move(S, p) /\ (\A e \in S : e \in c.Deliveries /\ place[e].by = r)
    BY <1>2, <1>5
  <1>9. runner[r].pc = "releasing" /\ b.exiting = runner[r].exiting
    BY <1>1
  <1>a. c.Nobody # r
    BY DEF RuntimeConfig
  <1> HIDE DEF b, p, S
  <1> QED BY <1>1, <1>3, <1>4, <1>6, <1>7, <1>8, <1>9, <1>a, Carries

(* All that was not started is given back. *)
LEMMA ReleaseEndsRan ==
  ASSUME NEW c, RuntimeConfig(c), NEW r \in c.Runners, RunnersFit(c), Runtime(c)!ReleaseEnds(r)
  PROVE  Ran(c, r)
  <1> DEFINE b == IF runner[r].fetch = "done" THEN Runtime(c)!AfterEmpty(runner[r])
                                              ELSE Runtime(c)!Resolved(runner[r])
  <1>1. runner[r].pc = "releasing" /\ runner[r].fetch \in {"done", "error", "fatal"}
        /\ Runtime(c)!Held(r, "fetched") = {} /\ runner' = [runner EXCEPT ![r] = b] /\ place' = place
        /\ UNCHANGED <<stopping, draining, paused, listed, tracked, live, serve, command>>
    BY DEF Runtime!ReleaseEnds, Runtime!Update, Runtime!appVars
  <1>2. runner[r] \in RunnerStates(c) /\ Consistent(c, runner[r])
    BY DEF RunnersFit, Fits
  <1>3. /\ Consistent(c, b) /\ b.pc \in {"waiting", "finally", "backoff"} /\ b.fetch \notin {"running", "done"}
        /\ b.exiting = runner[r].exiting /\ ~b.drainParked /\ ~b.pauseParked
        /\ b.pc = "finally" => stopping \/ runner[r].exiting \/ b.failed
    <2>1. CASE runner[r].fetch = "done"
      <3>1. b = Runtime(c)!AfterEmpty(runner[r])
        BY <2>1
      <3> HIDE DEF b
      <3> QED BY <1>1, <1>2, <3>1, AfterEmptyState DEF Consistent
    <2>2. CASE runner[r].fetch # "done"
      <3>1. b = Runtime(c)!Resolved(runner[r])
        BY <2>2
      <3> HIDE DEF b
      <3> QED BY <1>1, <1>2, <2>2, <3>1, ResolvedState
    <2> QED BY <2>1, <2>2
  <1> HIDE DEF b
  <1>a. \A d \in c.Deliveries : ~(place[d].by = r /\ place[d].at = "fetched")
    BY <1>1, HeldIs, Zenon DEF RunnersFit
  <1>4. \A d \in c.Deliveries : place[d].by = r => place[d].at \notin {"fetched", "claimed"}
    BY <1>1, <1>a, NoneFetched
  <1> QED BY <1>1, <1>3, <1>4, Advances

(* A fetch won the race against the stop controls. *)
LEMMA FetchDoneRan ==
  ASSUME NEW c, RuntimeConfig(c), NEW r \in c.Runners, RunnersFit(c), Runtime(c)!FetchDone(r)
  PROVE  Ran(c, r)
  <1>1. runner[r].pc = "fetching" /\ runner[r].fetch \in {"done", "error", "fatal"}
        /\ UNCHANGED <<stopping, draining, paused, listed, tracked, live, serve, command>>
    BY DEF Runtime!FetchDone, Runtime!appVars
  <1>2. runner[r] \in RunnerStates(c) /\ Consistent(c, runner[r])
    BY DEF RunnersFit, Fits
  <1>3. \A d \in c.Deliveries : place[d].by = r =>
          /\ place[d].at # "claimed"
          /\ place[d].at = "fetched" => runner[r].fetch = "done"
    BY <1>1, NoneFetched
  <1>4. CASE runner[r].fetch # "done"
    <2> DEFINE b == Runtime(c)!Resolved(runner[r])
    <2>1. runner' = [runner EXCEPT ![r] = b] /\ place' = place
      BY <1>4 DEF Runtime!FetchDone, Runtime!Update
    <2>2. /\ Consistent(c, b) /\ b.pc \in {"finally", "backoff"} /\ b.fetch \notin {"running", "done"}
          /\ b.exiting = runner[r].exiting /\ ~b.drainParked /\ ~b.pauseParked
          /\ b.pc = "finally" => b.failed
      BY <1>1, <1>2, <1>4, ResolvedState
    <2> HIDE DEF b
    <2> QED BY <1>1, <1>3, <1>4, <2>1, <2>2, Advances
  <1>5. CASE runner[r].fetch = "done" /\ Runtime(c)!StopFetching
    <2> DEFINE b == [runner[r] EXCEPT !.pc = "releasing"]
    <2>1. runner' = [runner EXCEPT ![r] = b] /\ place' = place
      BY <1>5 DEF Runtime!FetchDone, Runtime!Update
    <2>2. /\ Consistent(c, b) /\ b.pc = "releasing" /\ b.fetch = "done"
          /\ b.exiting = runner[r].exiting /\ ~b.drainParked /\ ~b.pauseParked
      BY <1>1, <1>2, <1>5 DEF Consistent, RunnerStates
    <2> HIDE DEF b
    <2> QED BY <1>1, <1>3, <2>1, <2>2, Advances
  <1>6. CASE runner[r].fetch = "done" /\ ~Runtime(c)!StopFetching /\ Runtime(c)!Held(r, "fetched") = {}
    <2> DEFINE b == Runtime(c)!AfterEmpty(runner[r])
    <2>1. runner' = [runner EXCEPT ![r] = b] /\ place' = place
      BY <1>6 DEF Runtime!FetchDone, Runtime!Update
    <2>2. /\ Consistent(c, b) /\ b.pc \in {"waiting", "finally"} /\ b.fetch = "none"
          /\ b.exiting = runner[r].exiting /\ ~b.drainParked /\ ~b.pauseParked
          /\ b.pc = "finally" => stopping \/ runner[r].exiting
      BY <1>1, <1>2, AfterEmptyState DEF Consistent
    <2>3. \A d \in c.Deliveries : ~(place[d].by = r /\ place[d].at = "fetched")
      BY <1>6, HeldIs, ZenonT(60) DEF RunnersFit
    <2> HIDE DEF b
    <2> QED BY <1>1, <1>3, <2>1, <2>2, <2>3, Advances
  <1>7. CASE runner[r].fetch = "done" /\ ~Runtime(c)!StopFetching /\ Runtime(c)!Held(r, "fetched") # {}
    <2> DEFINE b == [runner[r] EXCEPT !.pc = "emitting", !.fetch = "none"]
               S == Runtime(c)!Held(r, "fetched")
               p == [at |-> "claimed", by |-> r]
    <2>1. runner' = [runner EXCEPT ![r] = b] /\ Runtime(c)!Move(S, p)
      BY <1>7 DEF Runtime!FetchDone, Runtime!Update
    <2>2. /\ Consistent(c, b) /\ b.pc = "emitting" /\ b.fetch = "none"
          /\ b.exiting = runner[r].exiting /\ ~b.drainParked /\ ~b.pauseParked
      BY <1>1, <1>2 DEF Consistent, RunnerStates
    <2>3. \A d \in S : d \in c.Deliveries /\ place[d].by = r
      BY DEF Runtime!Held
    <2>4. \A d \in c.Deliveries \ S : place[d].by = r => place[d].at \notin {"fetched", "claimed"}
      BY <1>3, HeldIs DEF RunnersFit
    <2>5. p.at = "claimed" /\ p.by = r /\ r # c.Nobody
          /\ p \in [at : {"queue", "fetched", "claimed", "running", "settled", "lost"},
                    by : c.Runners \cup {c.Nobody}]
      BY DEF RuntimeConfig
    <2> HIDE DEF b, S, p
    <2> QED BY <1>1, <2>1, <2>2, <2>3, <2>4, <2>5, Carries
  <1> QED BY <1>4, <1>5, <1>6, <1>7

(* A fetch takes deliveries off the source. *)
LEMMA FetchReturnsRan ==
  ASSUME NEW c, RuntimeConfig(c), NEW r \in c.Runners, RunnersFit(c), Runtime(c)!FetchReturns(r)
  PROVE  Ran(c, r)
  <1> DEFINE b == [runner[r] EXCEPT !.fetch = "done"]
             p == [at |-> "fetched", by |-> r]
  <1>1. runner[r].fetch = "running" /\ runner' = [runner EXCEPT ![r] = b]
        /\ UNCHANGED <<stopping, draining, paused, listed, tracked, live, serve, command>>
    BY DEF Runtime!FetchReturns, Runtime!Update, Runtime!appVars
  <1>2. PICK F \in SUBSET {d \in c.Deliveries : place[d] = Runtime(c)!InQueue} :
           Runtime(c)!Cardinality(F) <= runner[r].room /\ Runtime(c)!Move(F, p)
    BY DEF Runtime!FetchReturns
  <1>3. runner[r] \in RunnerStates(c) /\ Consistent(c, runner[r]) /\ PlacesTyped(c, place)
        /\ Fits(c, r, runner[r], place)
    BY DEF RunnersFit, Fits
  <1>4. /\ Consistent(c, b) /\ b.pc = runner[r].pc /\ b.fetch = "done"
        /\ runner[r].pc \in {"fetching", "releasing"}
        /\ b.exiting = runner[r].exiting /\ ~b.drainParked /\ ~b.pauseParked
    BY <1>1, <1>3 DEF Consistent, RunnerStates
  <1>5. p.at = "fetched" /\ p.by = r /\ r # c.Nobody
        /\ p \in [at : {"queue", "fetched", "claimed", "running", "settled", "lost"},
                  by : c.Runners \cup {c.Nobody}]
    BY DEF RuntimeConfig
  <1> HIDE DEF b, p
  <1>6. /\ PlacesTyped(c, place')
        /\ \A d \in c.Deliveries : place'[d] = IF d \in F THEN p ELSE place[d]
    BY <1>2, <1>3, <1>5, MovedTo
  <1>7. \A d \in F : d \in c.Deliveries /\ place[d].by = c.Nobody /\ place[d].at = "queue"
    BY <1>2 DEF Runtime!InQueue
  <1>8. Placed(c, r, b, place')
    BY <1>3, <1>4, <1>5, <1>6, <1>1 DEF Placed, Fits
  <1>9. Bounded(c, r, b, place')
    <2>1. Mine(c, r, place') \subseteq Mine(c, r, place) \cup F
      BY <1>6 DEF Mine
    <2>2. Mine(c, r, place) \subseteq c.Deliveries /\ F \subseteq c.Deliveries
          /\ Mine(c, r, place') \subseteq c.Deliveries
      BY <1>7 DEF Mine
    <2>3. IsFiniteSet(Mine(c, r, place)) /\ IsFiniteSet(F) /\ Cardinality(F) \in Nat
          /\ Cardinality(Mine(c, r, place)) \in Nat /\ Cardinality(Mine(c, r, place')) \in Nat
          /\ Runtime(c)!Cardinality(F) = Cardinality(F)
      BY <2>2, FiniteParts
    <2>4. IsFiniteSet(Mine(c, r, place) \cup F)
          /\ Cardinality(Mine(c, r, place) \cup F) <= Cardinality(Mine(c, r, place)) + Cardinality(F)
          /\ Cardinality(Mine(c, r, place) \cup F) \in Nat
      <3> DEFINE A == Mine(c, r, place)
      <3> HIDE DEF A
      <3>1. IsFiniteSet(A) /\ IsFiniteSet(F)
        BY <2>3 DEF A
      <3>2. /\ IsFiniteSet(A \cup F) /\ IsFiniteSet(A \cap F)
            /\ Cardinality(A \cup F) = Cardinality(A) + Cardinality(F) - Cardinality(A \cap F)
        BY <3>1, FS_Union, FS_Intersection
      <3>3. Cardinality(A \cup F) \in Nat /\ Cardinality(A \cap F) \in Nat
            /\ Cardinality(A) \in Nat /\ Cardinality(F) \in Nat
        BY <3>1, <3>2, FS_CardinalityType
      <3>4. Cardinality(A \cup F) <= Cardinality(A) + Cardinality(F)
        BY <3>2, <3>3
      <3> QED BY <3>2, <3>3, <3>4 DEF A
    <2>5. Cardinality(Mine(c, r, place')) <= Cardinality(Mine(c, r, place) \cup F)
      BY <2>1, <2>4, FS_Subset
    <2>6. runner[r].room \in Nat
      BY <1>3 DEF RunnerStates, RuntimeConfig
    <2> QED BY <1>1, <1>2, <1>3, <1>4, <2>3, <2>4, <2>5, <2>6 DEF Fits, Bounded, RuntimeConfig
  <1>a. runner'[r] = b /\ runner' = [runner EXCEPT ![r] = runner'[r]]
    BY <1>1 DEF RunnersFit
  <1>b. Fits(c, r, runner'[r], place')
    BY <1>4, <1>8, <1>9, <1>a DEF Fits
  <1>c. \A d \in c.Deliveries :
          place'[d] = place[d] \/ (place[d].by = c.Nobody /\ place'[d].by = r /\ runner[r].fetch = "running")
    BY <1>1, <1>5, <1>6, <1>7
  <1>d. \A d \in c.Deliveries : place'[d].at = "lost" => place[d].at = "lost"
    BY <1>5, <1>6
  <1> QED BY <1>1, <1>4, <1>6, <1>a, <1>b, <1>c, <1>d DEF Ran

(* Every step of a runner is one of these. *)
LEMMA RunnerRan ==
  ASSUME NEW c, RuntimeConfig(c), NEW r \in c.Runners, RunnersFit(c),
         Runtime(c)!RunnerStep(r) \/ Runtime(c)!FetchStep(r) \/ Runtime(c)!WatcherFires(r)
  PROVE  Ran(c, r)
  BY LoopRan, WakeUpRan, ParkEndsRan, ResumedRan, AbandonFetchRan, AwaitFetchRan, FetchDoneRan,
     ReleaseOneRan, ReleaseEndsRan, BackoffEndsRan, StartHandlersRan, DrainEndsRan,
     FetchReturnsRan, FetchRaisesRan, WatcherFiresRan
     DEF Runtime!RunnerStep, Runtime!FetchStep

(* The runners fit what they have after a step of one of them. *)
LEMMA RanFits ==
  ASSUME NEW c, RuntimeConfig(c), NEW r \in c.Runners, RunnersFit(c), Ran(c, r)
  PROVE  RunnersFit(c)'
  <1>1. ASSUME NEW q \in c.Runners, q # r
        PROVE  Fits(c, q, runner[q], place')
    <2>1. \A d \in c.Deliveries : place'[d].by = q => place'[d] = place[d]
      BY <1>1 DEF Ran, RuntimeConfig
    <2> QED BY <2>1, StillFits DEF RunnersFit
  <1>2. Fits(c, r, runner'[r], place') /\ PlacesTyped(c, place')
    BY DEF Ran
  <1>3. runner'[r] \in RunnerStates(c)
    BY <1>2 DEF Fits, Consistent
  <1>4. runner' = [runner EXCEPT ![r] = runner'[r]]
    BY DEF Ran
  <1>5. runner' \in [c.Runners -> RunnerStates(c)] /\ \A q \in c.Runners : q # r => runner'[q] = runner[q]
    BY <1>3, <1>4 DEF RunnersFit
  <1>6. \A q \in c.Runners : Fits(c, q, runner'[q], place')
    BY <1>1, <1>2, <1>5
  <1> QED BY <1>2, <1>5, <1>6 DEF RunnersFit

(* A handler ends. *)
LEMMA HandlerFits ==
  ASSUME NEW c, RuntimeConfig(c), NEW d \in c.Deliveries, RunnersFit(c), Runtime(c)!HandlerEnds(d)
  PROVE  /\ RunnersFit(c)' /\ runner' = runner
         /\ \A e \in c.Deliveries : place'[e] = place[e] \/ (place'[e].by = c.Nobody /\ place'[e].at # "lost")
  <1>1. PICK p \in {Runtime(c)!Settled, Runtime(c)!InQueue} : Runtime(c)!Move({d}, p)
    BY DEF Runtime!HandlerEnds
  <1>2. p.by = c.Nobody /\ p.at \in {"settled", "queue"}
        /\ p \in [at : {"queue", "fetched", "claimed", "running", "settled", "lost"},
                  by : c.Runners \cup {c.Nobody}]
    BY DEF Runtime!Settled, Runtime!InQueue
  <1>3. /\ PlacesTyped(c, place')
        /\ \A e \in c.Deliveries : place'[e] = IF e \in {d} THEN p ELSE place[e]
    BY <1>1, <1>2, MovedTo DEF RunnersFit
  <1>4. \A e \in c.Deliveries : place'[e] = place[e] \/ (place'[e].by = c.Nobody /\ place'[e].at # "lost")
    BY <1>2, <1>3
  <1>5. runner' = runner
    BY DEF Runtime!HandlerEnds
  <1>6. ASSUME NEW r \in c.Runners PROVE Fits(c, r, runner[r], place')
    <2>1. \A e \in c.Deliveries : place'[e].by = r => place'[e] = place[e]
      BY <1>4 DEF RuntimeConfig
    <2> QED BY <2>1, StillFits DEF RunnersFit
  <1> QED BY <1>3, <1>4, <1>5, <1>6 DEF RunnersFit

(* Runners are cancelled: what they had not started is lost. *)
LEMMA CancelFits ==
  ASSUME NEW c, RuntimeConfig(c), NEW S \in SUBSET c.Runners, RunnersFit(c), Runtime(c)!CancelRunners(S)
  PROVE  /\ RunnersFit(c)'
         /\ \A r \in c.Runners : runner'[r] = IF r \in S THEN Runtime(c)!Cancelled(r) ELSE runner[r]
         /\ \A d \in c.Deliveries : place'[d] = place[d] \/ place'[d].by = c.Nobody
         /\ (\A r \in S : runner[r].pc \in {"unborn", "done"}) =>
               \A d \in c.Deliveries : place'[d].at = "lost" => place[d].at = "lost"
  <1>1. PICK F \in SUBSET Runtime(c)!TornFetch(S) :
           Runtime(c)!Move(F \cup UNION {Runtime(c)!Orphans(r) : r \in S}, Runtime(c)!Lost)
    BY DEF Runtime!CancelRunners
  <1> DEFINE O == UNION {Runtime(c)!Orphans(r) : r \in S}
             p == Runtime(c)!Lost
  <1>2. p.by = c.Nobody /\ p.at = "lost"
        /\ p \in [at : {"queue", "fetched", "claimed", "running", "settled", "lost"},
                  by : c.Runners \cup {c.Nobody}]
    BY DEF Runtime!Lost
  <1>3. /\ PlacesTyped(c, place) /\ PlacesTyped(c, place')
        /\ \A d \in c.Deliveries : place'[d] = IF d \in F \cup O THEN p ELSE place[d]
    BY <1>1, <1>2, MovedTo DEF RunnersFit
  <1>4. \A d \in c.Deliveries : place'[d] = place[d] \/ place'[d].by = c.Nobody
    BY <1>2, <1>3
  <1>5. \A r \in c.Runners : runner'[r] = IF r \in S THEN Runtime(c)!Cancelled(r) ELSE runner[r]
    BY DEF Runtime!CancelRunners
  <1>6. ASSUME NEW r \in c.Runners
        PROVE  Fits(c, r, runner'[r], place')
    <2>1. \A d \in c.Deliveries : place'[d].by = r => place'[d] = place[d]
      BY <1>4 DEF RuntimeConfig
    <2>2. Fits(c, r, runner[r], place')
      BY <2>1, StillFits DEF RunnersFit
    <2>3. CASE r \notin S
      BY <1>5, <2>2, <2>3
    <2>4. CASE r \in S
      <3> DEFINE me == runner[r]
                 out == Runtime(c)!Cancelled(r)
      <3>1. runner'[r] = out
        BY <1>5, <2>4
      <3>2. /\ Consistent(c, out) /\ ~out.drainParked /\ ~out.pauseParked
            /\ me.pc \in {"unborn", "done"} => out = me
            /\ me.pc \notin {"unborn", "done"} => out.pc \in {"finally", "done", "backoff", "releasing"}
            /\ me.fetch = "done" /\ out.fetch # "done" => me.pc = "releasing" /\ me.exiting
            /\ out.fetch = "running" => me.fetch = "running" /\ out.room = me.room
        BY CancelState
      <3>3. ASSUME NEW d \in c.Deliveries, place'[d].by = r
            PROVE  /\ place'[d].at = "fetched" => out.fetch = "done"
                   /\ place'[d].at # "claimed" /\ out.pc # "unborn"
        <4>1. place'[d] = place[d] /\ place[d].by = r /\ d \notin O
          BY <1>2, <1>3, <2>1, <3>3 DEF RuntimeConfig
        <4>2. d \notin Runtime(c)!Orphans(r)
          BY <2>4, <4>1
        <4>3. d \notin Runtime(c)!Held(r, "claimed")
              /\ (d \in Runtime(c)!Held(r, "fetched") => ~(me.pc = "releasing" /\ me.exiting))
          BY <4>2 DEF Runtime!Orphans
        <4>4. place[d].at # "claimed" /\ (place[d].at = "fetched" => ~(me.pc = "releasing" /\ me.exiting))
          BY <1>3, <4>1, <4>3, HeldIs
        <4>5. place[d].at = "fetched" => me.fetch = "done"
          BY <4>1, NoneFetched
        <4>6. me.pc # "unborn"
          BY <4>1, NoneFetched
        <4> HIDE DEF me, out
        <4> QED BY <3>2, <4>1, <4>4, <4>5, <4>6
      <3> HIDE DEF out
      <3>4. Fits(c, r, out, place')
        BY <2>2, <3>2, <3>3, MovesOn
      <3> QED BY <3>1, <3>4
    <2> QED BY <2>3, <2>4
  <1>7. ASSUME \A r \in S : runner[r].pc \in {"unborn", "done"},
               NEW d \in c.Deliveries, place'[d].at = "lost"
        PROVE  place[d].at = "lost"
    <2>1. F = {}
      BY <1>7 DEF Runtime!TornFetch
    <2>2. ASSUME NEW r \in S, d \in Runtime(c)!Orphans(r) PROVE FALSE
      <3>1. d \in Runtime(c)!Held(r, "claimed")
        BY <1>7, <2>2 DEF Runtime!Orphans
      <3>2. place[d].by = r /\ place[d].at = "claimed"
        BY <1>3, <3>1, HeldIs
      <3> QED BY <1>7, <3>2, NoneFetched
    <2>3. d \notin O
      BY <2>2
    <2> QED BY <1>3, <1>7, <2>1, <2>3
  <1>8. runner' \in [c.Runners -> RunnerStates(c)]
    <2>1. runner' = [r \in c.Runners |-> IF r \in S THEN Runtime(c)!Cancelled(r) ELSE runner[r]]
      BY DEF Runtime!CancelRunners
    <2>2. \A r \in c.Runners : runner'[r] \in RunnerStates(c)
      BY <1>6 DEF Fits, Consistent
    <2> QED BY <2>1, <2>2
  <1> QED BY <1>3, <1>4, <1>5, <1>6, <1>7, <1>8 DEF RunnersFit

(* A fresh runner starts with nothing. *)
LEMMA BornFits ==
  ASSUME NEW c, RuntimeConfig(c), NEW r \in c.Runners, RunnersFit(c), runner[r].pc = "unborn",
         runner' = [runner EXCEPT ![r] = Runtime(c)!Born], place' = place
  PROVE  RunnersFit(c)'
  <1>1. Consistent(c, Runtime(c)!Born) /\ Runtime(c)!Born \in RunnerStates(c)
    BY BornStates
  <1>2. Runtime(c)!Born.fetch = "none"
    BY DEF Runtime!Born, Runtime!Unborn
  <1>3. \A d \in c.Deliveries : place[d].by # r
    BY NoneFetched
  <1>4. Fits(c, r, Runtime(c)!Born, place)
    BY <1>1, <1>2, <1>3, MovesOn DEF RunnersFit
  <1> QED BY <1>1, <1>4 DEF RunnersFit

(* The runners, the deliveries and the registries keep their types and fit. *)
LEMMA RuntimeStep ==
  ASSUME NEW c, RuntimeConfig(c), RuntimeInv(c), Runtime(c)!Next
  PROVE  RuntimeInv(c)'
  <1> USE DEF RuntimeInv
  <1>1. ASSUME NEW r \in c.Runners,
               Runtime(c)!RunnerStep(r) \/ Runtime(c)!FetchStep(r) \/ Runtime(c)!WatcherFires(r)
        PROVE  RuntimeInv(c)'
    <2>1. Ran(c, r)
      BY <1>1, RunnerRan
    <2>2. RunnersFit(c)'
      BY <2>1, RanFits
    <2>3. AppTyped(c)'
      BY <2>1 DEF Ran, AppTyped
    <2> QED BY <2>2, <2>3
  <1>2. ASSUME NEW d \in c.Deliveries, Runtime(c)!HandlerEnds(d)
        PROVE  RuntimeInv(c)'
    <2>1. AppTyped(c)'
      BY <1>2 DEF AppTyped, Runtime!HandlerEnds, Runtime!appVars
    <2> QED BY <1>2, <2>1, HandlerFits
  <1>3. ASSUME NEW k \in c.Commands, Runtime(c)!StopBegins(k)
        PROVE  RuntimeInv(c)'
    <2>1. RunnersFit(c)'
      BY <1>3, CancelFits DEF AppTyped, Runtime!StopBegins
    <2> DEFINE t == IF tracked = {} THEN c.Nobody ELSE CHOOSE r \in tracked : TRUE
    <2>2. t \in c.Runners \cup {c.Nobody}
      BY DEF AppTyped
    <2>3. command' = [command EXCEPT ![k] = [at |-> "stopping", target |-> t]]
      BY <1>3 DEF Runtime!StopBegins
    <2> HIDE DEF t
    <2>4. command' \in [c.Commands -> [at : {"new", "stopping", "starting", "ended"},
                                       target : c.Runners \cup {c.Nobody}]]
      BY <2>2, <2>3 DEF AppTyped
    <2>5. AppTyped(c)'
      BY <1>3, <2>4 DEF AppTyped, Runtime!StopBegins
    <2> QED BY <2>1, <2>5
  <1>4. ASSUME NEW k \in c.Commands, Runtime(c)!StopEnds(k)
        PROVE  RuntimeInv(c)'
    <2>1. AppTyped(c)'
      BY <1>4 DEF AppTyped, Runtime!StopEnds
    <2> QED BY <1>4, <2>1 DEF RunnersFit, Runtime!StopEnds
  <1>5. ASSUME NEW k \in c.Commands, Runtime(c)!StartEnds(k)
        PROVE  RuntimeInv(c)'
    <2>1. PICK r \in c.Runners : /\ runner[r].pc = "unborn"
                                 /\ runner' = [runner EXCEPT ![r] = Runtime(c)!Born]
                                 /\ listed' = listed \cup {r} /\ tracked' = {r}
      BY <1>5 DEF Runtime!StartEnds, Runtime!Update
    <2>2. RunnersFit(c)'
      BY <1>5, <2>1, BornFits DEF Runtime!StartEnds
    <2>3. AppTyped(c)'
      BY <1>5, <2>1 DEF AppTyped, Runtime!StartEnds
    <2> QED BY <2>2, <2>3
  <1>6. ASSUME NEW k \in c.Commands, Runtime(c)!CommandTimeout(k)
        PROVE  RuntimeInv(c)'
    <2>1. AppTyped(c)'
      BY <1>6 DEF AppTyped, Runtime!CommandTimeout
    <2>2. CASE command[k].at = "stopping" /\ ~Runtime(c)!TargetGone(k)
      <3>1. command[k].target \in c.Runners
        BY <2>2 DEF AppTyped, Runtime!TargetGone
      <3>2. {command[k].target} \in SUBSET c.Runners /\ Runtime(c)!CancelRunners({command[k].target})
        BY <1>6, <2>2, <3>1 DEF Runtime!CommandTimeout
      <3> QED BY <2>1, <3>2, CancelFits
    <2>3. CASE ~(command[k].at = "stopping" /\ ~Runtime(c)!TargetGone(k))
      <3>1. runner' = runner /\ place' = place
        BY <1>6, <2>3 DEF Runtime!CommandTimeout
      <3> QED BY <2>1, <3>1 DEF RunnersFit
    <2> QED BY <2>2, <2>3
  <1>7. CASE Runtime(c)!Control
    <2>1. runner' = runner /\ place' = place /\ AppTyped(c)'
      BY <1>7 DEF AppTyped, Runtime!Control, Runtime!RequestShutdown, Runtime!RequestDrain,
                  Runtime!RequestPause, Runtime!RequestResume
    <2> QED BY <2>1 DEF RunnersFit
  <1>8. CASE Runtime(c)!ServeStep
    <2>1. CASE Runtime(c)!KeepServing \/ Runtime(c)!ServeEnds \/ Runtime(c)!ShutdownEnds
      <3>1. runner' = runner /\ place' = place
        BY <2>1 DEF Runtime!KeepServing, Runtime!ServeEnds, Runtime!ShutdownEnds
      <3>2. AppTyped(c)'
        BY <2>1 DEF AppTyped, Runtime!KeepServing, Runtime!ServeEnds, Runtime!ShutdownEnds,
                    Runtime!Down, Runtime!Uninspected
      <3> QED BY <3>1, <3>2 DEF RunnersFit
    <2>2. CASE Runtime(c)!RunnerFailed
      <3>1. AppTyped(c)' /\ tracked \in SUBSET c.Runners /\ Runtime(c)!CancelRunners(tracked)
        BY <2>2 DEF AppTyped, Runtime!RunnerFailed
      <3> QED BY <3>1, CancelFits
    <2>3. CASE Runtime(c)!CloseResources
      <3>1. AppTyped(c)' /\ tracked \in SUBSET c.Runners /\ Runtime(c)!CancelRunners(tracked)
        BY <2>3 DEF AppTyped, Runtime!CloseResources, Runtime!Down
      <3> QED BY <3>1, CancelFits
    <2> QED BY <1>8, <2>1, <2>2, <2>3 DEF Runtime!ServeStep
  <1> QED BY <1>1, <1>2, <1>3, <1>4, <1>5, <1>6, <1>7, <1>8 DEF Runtime!Next, Runtime!CommandStep

(* The inductive invariant holds when serve() starts. *)
LEMMA RuntimeInit ==
  ASSUME NEW c, RuntimeConfig(c), Runtime(c)!Init
  PROVE  RuntimeInv(c)
  <1>1. \A r \in c.Runners : runner[r] \in {Runtime(c)!Born, Runtime(c)!Unborn}
    BY DEF Runtime!Init
  <1>2. \A r \in c.Runners : Consistent(c, runner[r]) /\ runner[r].fetch = "none"
    <2>1. Runtime(c)!Born.fetch = "none" /\ Runtime(c)!Unborn.fetch = "none"
      BY DEF Runtime!Born, Runtime!Unborn
    <2> QED BY <1>1, <2>1, BornStates
  <1>3. runner \in [c.Runners -> RunnerStates(c)]
    BY BornStates DEF Runtime!Init
  <1>4. PlacesTyped(c, place) /\ \A d \in c.Deliveries : place[d].by = c.Nobody
    BY DEF Runtime!Init, Runtime!InQueue, PlacesTyped
  <1>5. ASSUME NEW r \in c.Runners PROVE Fits(c, r, runner[r], place)
    <2>1. Mine(c, r, place) = {} /\ Placed(c, r, runner[r], place)
      BY <1>4 DEF Mine, Placed, RuntimeConfig
    <2>2. Cardinality(Mine(c, r, place)) = 0
      BY <2>1, FS_EmptySet
    <2> QED BY <1>2, <2>1, <2>2 DEF Fits, Bounded, RuntimeConfig
  <1>6. AppTyped(c)
    BY DEF Runtime!Init, AppTyped, RuntimeConfig
  <1> QED BY <1>3, <1>4, <1>5, <1>6 DEF RuntimeInv, RunnersFit

--------------------------------------------------------------------------------
(* At most one restart of a task is under way. *)
OneCommand(c) == \A k, q \in c.Commands : k = q

(* A runner that was started and has not ended. *)
Alive(r) == runner[r].pc \notin {"unborn", "done"}

(* No restart has ended. *)
Fresh(c) == \A k \in c.Commands : command[k].at # "ended"

(* Until a restart ends there is only the first runner, and it is in the set *)
(* that serve() waits for; a restart starts a runner when none is left.      *)
FirstAlone(c) ==
  /\ Fresh(c) => \A r \in c.Runners : /\ r # c.First => runner[r].pc = "unborn"
                                      /\ Alive(r) => r \in live
  /\ \A k \in c.Commands : command[k].at = "starting" => \A r \in c.Runners : ~Alive(r)
  /\ Runtime(c)!OneRunner

(* The registry: a restart empties it and fills it again.                    *)
Registered(c) ==
  /\ \A k \in c.Commands : /\ command[k].at \in {"stopping", "starting"} => tracked = {}
                           /\ command[k].at = "stopping" => command[k].target = c.First
  /\ (\A k \in c.Commands : command[k].at = "new") => serve = "down" \/ tracked = {c.First}
  /\ \A r, q \in tracked : r = q
  /\ \A r, q \in live : r = q
  /\ \A r \in live \cup tracked : runner[r].pc # "unborn"

(* serve() and shutdown() close the resources and clear the registry when the *)
(* runners they wait for have ended.                                          *)
Awaited(c) ==
  /\ serve \in {"closing", "down"} => \A r \in live : ~Alive(r)
  /\ serve = "closed" => /\ live = tracked
                         /\ \A k \in c.Commands : command[k].at \in {"new", "ended"}
  /\ Runtime(c)!Supervised

(* The inductive invariant of the supervisor. *)
SupervisorInv(c) == FirstAlone(c) /\ Registered(c) /\ Awaited(c)

(* Nobody is born. *)
NoBirth(c) == \A r \in c.Runners : /\ runner'[r].pc = "unborn" <=> runner[r].pc = "unborn"
                                   /\ Alive(r)' => Alive(r)

(* A cancellation neither starts nor restarts a runner. *)
LEMMA CancelBirth ==
  ASSUME NEW c, RuntimeConfig(c), NEW S \in SUBSET c.Runners, RunnersFit(c), Runtime(c)!CancelRunners(S)
  PROVE  NoBirth(c)
  <1> SUFFICES ASSUME NEW r \in c.Runners
               PROVE  /\ runner'[r].pc = "unborn" <=> runner[r].pc = "unborn"
                      /\ runner'[r].pc \notin {"unborn", "done"} => runner[r].pc \notin {"unborn", "done"}
    BY DEF NoBirth, Alive
  <1>1. runner'[r] = IF r \in S THEN Runtime(c)!Cancelled(r) ELSE runner[r]
    BY CancelFits
  <1>2. /\ runner[r].pc \in {"unborn", "done"} => Runtime(c)!Cancelled(r) = runner[r]
        /\ runner[r].pc \notin {"unborn", "done"} =>
             Runtime(c)!Cancelled(r).pc \in {"finally", "done", "backoff", "releasing"}
    BY CancelState
  <1> QED BY <1>1, <1>2

(* A step that leaves the registries alone and starts no runner. *)
LEMMA CalmStep ==
  ASSUME NEW c, SupervisorInv(c), NoBirth(c), AppTyped(c),
         UNCHANGED <<tracked, live, serve, command>>
  PROVE  SupervisorInv(c)'
  <1> USE DEF NoBirth, AppTyped
  <1>1. FirstAlone(c)'
    <2>1. Runtime(c)!OneRunner'
      BY DEF SupervisorInv, FirstAlone, Runtime!OneRunner, Runtime!Alive, Alive
    <2> QED BY <2>1 DEF SupervisorInv, FirstAlone, Fresh, Alive
  <1>2. Registered(c)'
    BY DEF SupervisorInv, Registered
  <1>3. Awaited(c)'
    <2>1. Runtime(c)!Supervised'
      BY DEF SupervisorInv, Awaited, Runtime!Supervised, Runtime!Alive, Alive
    <2> QED BY <2>1 DEF SupervisorInv, Awaited, Alive
  <1> QED BY <1>1, <1>2, <1>3 DEF SupervisorInv

(* The first runner is alone, registered and waited for. *)
LEMMA SupervisorInit ==
  ASSUME NEW c, RuntimeConfig(c), Runtime(c)!Init
  PROVE  SupervisorInv(c)
  <1>1. \A r \in c.Runners : runner[r] = IF r = c.First THEN Runtime(c)!Born ELSE Runtime(c)!Unborn
    BY DEF Runtime!Init
  <1>2. Runtime(c)!Born.pc = "loop" /\ Runtime(c)!Unborn.pc = "unborn"
    BY DEF Runtime!Born, Runtime!Unborn
  <1>3. tracked = {c.First} /\ live = {c.First} /\ serve = "serving"
        /\ \A k \in c.Commands : command[k].at = "new"
    BY DEF Runtime!Init
  <1>4. FirstAlone(c)
    BY <1>1, <1>2, <1>3 DEF FirstAlone, Alive, Runtime!OneRunner, Runtime!Alive
  <1>5. Registered(c)
    BY <1>1, <1>2, <1>3 DEF Registered, RuntimeConfig
  <1>6. Awaited(c)
    BY <1>1, <1>2, <1>3 DEF Awaited, Runtime!Supervised, Runtime!Alive
  <1> QED BY <1>4, <1>5, <1>6 DEF SupervisorInv

(* A restart takes the runner of its task and cancels it. *)
LEMMA StopBeginsSupervised ==
  ASSUME NEW c, RuntimeConfig(c), OneCommand(c), RuntimeInv(c), SupervisorInv(c),
         NEW k \in c.Commands, Runtime(c)!StopBegins(k)
  PROVE  SupervisorInv(c)'
  <1>1. command[k].at = "new" /\ serve \in {"serving", "failing", "closing"}
        /\ tracked' = {} /\ UNCHANGED <<live, serve>>
    BY DEF Runtime!StopBegins
  <1>2. \A q \in c.Commands : q = k
    BY DEF OneCommand
  <1>3. tracked = {c.First}
    BY <1>1, <1>2 DEF SupervisorInv, Registered
  <1>4. (CHOOSE r \in tracked : TRUE) = c.First
    BY <1>3
  <1>5. command' = [command EXCEPT ![k] = [at |-> "stopping", target |-> c.First]]
    BY <1>3, <1>4 DEF Runtime!StopBegins
  <1>6. command'[k] = [at |-> "stopping", target |-> c.First]
    BY <1>5 DEF RuntimeInv, AppTyped
  <1>7. NoBirth(c)
    BY CancelBirth DEF Runtime!StopBegins, RuntimeInv, AppTyped
  <1>8. Fresh(c) /\ live \subseteq c.Runners
    BY <1>1, <1>2 DEF Fresh, RuntimeInv, AppTyped
  <1>9. FirstAlone(c)'
    <2>1. Runtime(c)!OneRunner'
      BY <1>7 DEF SupervisorInv, FirstAlone, Runtime!OneRunner, Runtime!Alive, Alive, NoBirth
    <2>2. \A r \in c.Runners : /\ r # c.First => runner'[r].pc = "unborn"
                               /\ Alive(r)' => r \in live'
      BY <1>1, <1>7, <1>8 DEF SupervisorInv, FirstAlone, NoBirth
    <2>3. \A q \in c.Commands : command'[q].at # "starting"
      BY <1>2, <1>6
    <2> QED BY <2>1, <2>2, <2>3 DEF FirstAlone
  <1>a. Registered(c)'
    <2>1. \A q \in c.Commands : command'[q].at = "stopping" /\ command'[q].target = c.First
      BY <1>2, <1>6
    <2>2. \A r \in live' \cup tracked' : runner'[r].pc # "unborn"
      BY <1>1, <1>7, <1>8 DEF SupervisorInv, Registered, NoBirth
    <2> QED BY <1>1, <2>1, <2>2 DEF SupervisorInv, Registered
  <1>b. Awaited(c)'
    <2>1. ASSUME NEW r \in c.Runners, Alive(r)' PROVE r \in live'
      BY <1>1, <1>7, <1>8, <2>1 DEF SupervisorInv, FirstAlone, NoBirth
    <2>2. Runtime(c)!Supervised'
      BY <2>1 DEF Runtime!Supervised, Runtime!Alive, Alive
    <2>3. serve' = "closing" => \A r \in live' : ~Alive(r)'
      BY <1>1, <1>7, <1>8 DEF SupervisorInv, Awaited, NoBirth
    <2> QED BY <1>1, <2>2, <2>3 DEF Awaited
  <1> QED BY <1>9, <1>a, <1>b DEF SupervisorInv

(* The runner a restart waited for has ended. *)
LEMMA StopEndsSupervised ==
  ASSUME NEW c, RuntimeConfig(c), OneCommand(c), RuntimeInv(c), SupervisorInv(c),
         NEW k \in c.Commands, Runtime(c)!StopEnds(k)
  PROVE  SupervisorInv(c)'
  <1>1. command[k].at = "stopping" /\ command' = [command EXCEPT ![k].at = "starting"]
        /\ UNCHANGED <<runner, tracked, live, serve>>
    BY DEF Runtime!StopEnds
  <1>2. \A q \in c.Commands : q = k
    BY DEF OneCommand
  <1>3. command'[k].at = "starting"
    BY <1>1 DEF RuntimeInv, AppTyped
  <1>4. command[k].target = c.First /\ tracked = {}
    BY <1>1 DEF SupervisorInv, Registered
  <1>5. ~Alive(c.First)
    BY <1>4 DEF Runtime!StopEnds, Runtime!TargetGone, Runtime!Alive, Alive, RuntimeConfig
  <1>6. Fresh(c)
    BY <1>1, <1>2 DEF Fresh
  <1>7. \A r \in c.Runners : ~Alive(r)
    BY <1>5, <1>6 DEF SupervisorInv, FirstAlone, Alive
  <1>8. FirstAlone(c)'
    BY <1>1, <1>6, <1>7 DEF SupervisorInv, FirstAlone, Alive, Runtime!OneRunner, Runtime!Alive
  <1>9. Registered(c)'
    <2>1. \A q \in c.Commands : command'[q].at = "starting"
      BY <1>2, <1>3
    <2> QED BY <1>1, <1>4, <2>1 DEF SupervisorInv, Registered
  <1>a. Awaited(c)'
    <2>1. serve # "closed"
      BY <1>1 DEF SupervisorInv, Awaited
    <2> QED BY <1>1, <1>7, <2>1 DEF SupervisorInv, Awaited, Alive, Runtime!Supervised, Runtime!Alive
  <1> QED BY <1>8, <1>9, <1>a DEF SupervisorInv

(* A restart registers the runner that comes next. *)
LEMMA StartEndsSupervised ==
  ASSUME NEW c, RuntimeConfig(c), OneCommand(c), RuntimeInv(c), SupervisorInv(c),
         NEW k \in c.Commands, Runtime(c)!StartEnds(k)
  PROVE  SupervisorInv(c)'
  <1>1. command[k].at = "starting" /\ command' = [command EXCEPT ![k].at = "ended"]
        /\ UNCHANGED <<live, serve>>
    BY DEF Runtime!StartEnds
  <1>2. PICK r \in c.Runners : /\ runner[r].pc = "unborn"
                               /\ runner' = [runner EXCEPT ![r] = Runtime(c)!Born]
                               /\ tracked' = {r}
    BY DEF Runtime!StartEnds, Runtime!Update
  <1>3. \A q \in c.Commands : q = k
    BY DEF OneCommand
  <1>4. command'[k].at = "ended"
    BY <1>1 DEF RuntimeInv, AppTyped
  <1>5. Runtime(c)!Born.pc = "loop"
    BY DEF Runtime!Born, Runtime!Unborn
  <1>6. runner'[r].pc = "loop" /\ \A q \in c.Runners : q # r => runner'[q] = runner[q]
    BY <1>2, <1>5 DEF RuntimeInv, RunnersFit
  <1>7. \A q \in c.Runners : ~Alive(q)
    BY <1>1 DEF SupervisorInv, FirstAlone
  <1>8. \A q \in c.Runners : Alive(q)' => q = r
    BY <1>6, <1>7 DEF Alive
  <1>9. r \notin live /\ live \subseteq c.Runners
    BY <1>2 DEF SupervisorInv, Registered, RuntimeInv, AppTyped
  <1>a. FirstAlone(c)'
    <2>1. ~Fresh(c)' /\ \A q \in c.Commands : command'[q].at # "starting"
      BY <1>3, <1>4 DEF Fresh
    <2>2. Runtime(c)!OneRunner'
      BY <1>8 DEF Runtime!OneRunner, Runtime!Alive, Alive
    <2> QED BY <2>1, <2>2 DEF FirstAlone
  <1>b. Registered(c)'
    <2>1. \A q \in c.Commands : command'[q].at = "ended"
      BY <1>3, <1>4
    <2>2. \A q \in live' \cup tracked' : runner'[q].pc # "unborn"
      BY <1>1, <1>2, <1>6, <1>9 DEF SupervisorInv, Registered
    <2> QED BY <1>1, <1>2, <2>1, <2>2 DEF SupervisorInv, Registered
  <1>c. Awaited(c)'
    <2>1. serve # "closed"
      BY <1>1 DEF SupervisorInv, Awaited
    <2>2. \A q \in live' : ~Alive(q)'
      BY <1>1, <1>8, <1>9
    <2>3. Runtime(c)!Supervised'
      BY <1>2, <1>8 DEF Runtime!Supervised, Runtime!Alive, Alive
    <2> QED BY <1>1, <2>1, <2>2, <2>3 DEF Awaited
  <1> QED BY <1>a, <1>b, <1>c DEF SupervisorInv

(* A restart is cut off by its timeout. *)
LEMMA TimeoutSupervised ==
  ASSUME NEW c, RuntimeConfig(c), OneCommand(c), RuntimeInv(c), SupervisorInv(c),
         NEW k \in c.Commands, Runtime(c)!CommandTimeout(k)
  PROVE  SupervisorInv(c)'
  <1>1. command[k].at \in {"stopping", "starting"} /\ command' = [command EXCEPT ![k].at = "ended"]
        /\ UNCHANGED <<tracked, live, serve>>
    BY DEF Runtime!CommandTimeout
  <1>2. \A q \in c.Commands : q = k
    BY DEF OneCommand
  <1>3. \A q \in c.Commands : command'[q].at = "ended"
    BY <1>1, <1>2 DEF RuntimeInv, AppTyped
  <1>4. NoBirth(c)
    <2>1. CASE command[k].at = "stopping" /\ ~Runtime(c)!TargetGone(k)
      <3>1. command[k].target \in c.Runners
        BY <2>1 DEF RuntimeInv, AppTyped, Runtime!TargetGone
      <3>2. {command[k].target} \in SUBSET c.Runners /\ Runtime(c)!CancelRunners({command[k].target})
        BY <2>1, <3>1 DEF Runtime!CommandTimeout
      <3> QED BY <3>2, CancelBirth DEF RuntimeInv
    <2>2. CASE ~(command[k].at = "stopping" /\ ~Runtime(c)!TargetGone(k))
      <3>1. runner' = runner
        BY <2>2 DEF Runtime!CommandTimeout
      <3> QED BY <3>1 DEF NoBirth, Alive
    <2> QED BY <2>1, <2>2
  <1>5. Fresh(c) /\ live \subseteq c.Runners /\ tracked = {}
    BY <1>1, <1>2 DEF Fresh, RuntimeInv, AppTyped, SupervisorInv, Registered
  <1>6. \A r \in c.Runners : Alive(r)' => r \in live'
    BY <1>1, <1>4, <1>5 DEF SupervisorInv, FirstAlone, NoBirth
  <1>7. FirstAlone(c)'
    <2>1. ~Fresh(c)'
      BY <1>3 DEF Fresh
    <2>2. Runtime(c)!OneRunner'
      BY <1>4 DEF SupervisorInv, FirstAlone, Runtime!OneRunner, Runtime!Alive, Alive, NoBirth
    <2> QED BY <1>3, <2>1, <2>2 DEF FirstAlone
  <1>8. Registered(c)'
    <2>1. \A r \in live' \cup tracked' : runner'[r].pc # "unborn"
      BY <1>1, <1>4, <1>5 DEF SupervisorInv, Registered, NoBirth
    <2>2. ~(\A q \in c.Commands : command'[q].at = "new")
      BY <1>3
    <2> QED BY <1>1, <1>3, <2>1, <2>2 DEF SupervisorInv, Registered
  <1>9. Awaited(c)'
    <2>1. Runtime(c)!Supervised'
      BY <1>6 DEF Runtime!Supervised, Runtime!Alive, Alive
    <2>2. serve' \in {"closing", "down"} => \A r \in live' : ~Alive(r)'
      BY <1>1, <1>4, <1>5 DEF SupervisorInv, Awaited, NoBirth
    <2>3. serve # "closed"
      BY <1>1 DEF SupervisorInv, Awaited
    <2> QED BY <1>1, <2>1, <2>2, <2>3 DEF Awaited
  <1> QED BY <1>7, <1>8, <1>9 DEF SupervisorInv

(* When serve() looks at the registry, the runner it waited for has ended. *)
LEMMA LooksDead ==
  ASSUME NEW c, RuntimeInv(c), SupervisorInv(c), Runtime(c)!Looks
  PROVE  (\A r \in live : ~Alive(r)) /\ serve = "serving" /\ live \subseteq c.Runners
  BY DEF Runtime!Looks, SupervisorInv, Registered, Runtime!Alive, Alive, RuntimeInv, AppTyped

(* serve() looks again at the runners it waits for. *)
LEMMA KeepServingSupervised ==
  ASSUME NEW c, RuntimeConfig(c), RuntimeInv(c), SupervisorInv(c), Runtime(c)!KeepServing
  PROVE  SupervisorInv(c)'
  <1>1. (\A r \in live : ~Alive(r)) /\ serve = "serving"
    BY LooksDead DEF Runtime!KeepServing
  <1>2. live' = {r \in tracked : Alive(r) \/ Runtime(c)!Failed(r)}
        /\ UNCHANGED <<runner, tracked, serve, command>>
    BY DEF Runtime!KeepServing, Runtime!Uninspected, Runtime!Alive, Alive
  <1>3. live' \subseteq tracked /\ \A r \in tracked : Alive(r) => r \in live'
    BY <1>2
  <1>4. FirstAlone(c)'
    <2>1. Fresh(c) => \A r \in c.Runners : ~Alive(r)
      BY <1>1 DEF SupervisorInv, FirstAlone
    <2> QED BY <1>2, <2>1 DEF SupervisorInv, FirstAlone, Fresh, Alive, Runtime!OneRunner, Runtime!Alive
  <1>5. Registered(c)'
    BY <1>2, <1>3 DEF SupervisorInv, Registered
  <1>6. Awaited(c)'
    <2>1. Runtime(c)!Supervised'
      BY <1>1, <1>2 DEF SupervisorInv, Awaited, Runtime!Supervised, Runtime!Alive, Alive
    <2> QED BY <1>1, <1>2, <2>1 DEF Awaited
  <1> QED BY <1>4, <1>5, <1>6 DEF SupervisorInv

(* serve() finds that a runner has failed and cancels the others. *)
LEMMA RunnerFailedSupervised ==
  ASSUME NEW c, RuntimeConfig(c), RuntimeInv(c), SupervisorInv(c), Runtime(c)!RunnerFailed
  PROVE  SupervisorInv(c)'
  <1>1. (\A r \in live : ~Alive(r)) /\ serve = "serving"
    BY LooksDead DEF Runtime!RunnerFailed
  <1>2. live' = tracked /\ serve' = "failing" /\ UNCHANGED <<tracked, command>>
        /\ tracked \subseteq c.Runners
    BY DEF Runtime!RunnerFailed, RuntimeInv, AppTyped
  <1>3. NoBirth(c)
    BY CancelBirth DEF Runtime!RunnerFailed, RuntimeInv, AppTyped
  <1>4. FirstAlone(c)'
    <2>1. Fresh(c) => \A r \in c.Runners : ~Alive(r)'
      BY <1>1, <1>3 DEF SupervisorInv, FirstAlone, NoBirth
    <2>2. Runtime(c)!OneRunner'
      BY <1>3 DEF SupervisorInv, FirstAlone, Runtime!OneRunner, Runtime!Alive, Alive, NoBirth
    <2> QED BY <1>2, <1>3, <2>1, <2>2 DEF SupervisorInv, FirstAlone, Fresh, NoBirth
  <1>5. Registered(c)'
    BY <1>1, <1>2, <1>3 DEF SupervisorInv, Registered, NoBirth
  <1>6. Awaited(c)'
    <2>1. Runtime(c)!Supervised'
      BY <1>1, <1>2, <1>3 DEF SupervisorInv, Awaited, Runtime!Supervised, Runtime!Alive, Alive, NoBirth
    <2> QED BY <1>2, <2>1 DEF Awaited
  <1> QED BY <1>4, <1>5, <1>6 DEF SupervisorInv

(* serve() leaves its loop. *)
LEMMA ServeEndsSupervised ==
  ASSUME NEW c, RuntimeConfig(c), RuntimeInv(c), SupervisorInv(c), Runtime(c)!ServeEnds
  PROVE  SupervisorInv(c)'
  <1>1. \A r \in live : ~Alive(r)
    BY LooksDead DEF Runtime!ServeEnds, Runtime!Alive, Alive
  <1>2. serve' = "closing" /\ serve \in {"serving", "failing"}
        /\ UNCHANGED <<runner, tracked, live, command>>
    BY DEF Runtime!ServeEnds, Runtime!Looks
  <1>3. FirstAlone(c)'
    BY <1>2 DEF SupervisorInv, FirstAlone, Fresh, Alive, Runtime!OneRunner, Runtime!Alive
  <1>4. Registered(c)'
    BY <1>2 DEF SupervisorInv, Registered
  <1>5. Awaited(c)'
    BY <1>1, <1>2 DEF SupervisorInv, Awaited, Alive, Runtime!Supervised, Runtime!Alive
  <1> QED BY <1>3, <1>4, <1>5 DEF SupervisorInv

(* shutdown() closes the resources. *)
LEMMA CloseResourcesSupervised ==
  ASSUME NEW c, RuntimeConfig(c), RuntimeInv(c), SupervisorInv(c), Runtime(c)!CloseResources
  PROVE  SupervisorInv(c)'
  <1>1. (\A r \in live : ~Alive(r)) /\ serve = "closing"
    BY DEF Runtime!CloseResources, SupervisorInv, Awaited
  <1>2. live' = tracked /\ tracked' = tracked /\ command' = command /\ tracked \subseteq c.Runners
        /\ serve' = IF tracked = {} THEN "down" ELSE "closed"
    BY DEF Runtime!CloseResources, Runtime!Down, RuntimeInv, AppTyped
  <1>3. NoBirth(c)
    BY CancelBirth DEF Runtime!CloseResources, RuntimeInv, AppTyped
  <1>4. FirstAlone(c)'
    <2>1. Fresh(c) => \A r \in c.Runners : ~Alive(r)'
      BY <1>1, <1>3 DEF SupervisorInv, FirstAlone, NoBirth
    <2>2. Runtime(c)!OneRunner'
      BY <1>3 DEF SupervisorInv, FirstAlone, Runtime!OneRunner, Runtime!Alive, Alive, NoBirth
    <2> QED BY <1>2, <1>3, <2>1, <2>2 DEF SupervisorInv, FirstAlone, Fresh, NoBirth
  <1>5. Registered(c)'
    BY <1>1, <1>2, <1>3 DEF SupervisorInv, Registered, NoBirth
  <1>6. Awaited(c)'
    <2>1. Runtime(c)!Supervised'
      BY <1>1, <1>2, <1>3 DEF SupervisorInv, Awaited, Runtime!Supervised, Runtime!Alive, Alive, NoBirth
    <2>2. tracked # {} => \A k \in c.Commands : command[k].at \in {"new", "ended"}
      BY DEF SupervisorInv, Registered, RuntimeInv, AppTyped
    <2> QED BY <1>2, <2>1, <2>2 DEF Awaited
  <1> QED BY <1>4, <1>5, <1>6 DEF SupervisorInv

(* shutdown() has forgotten every runner. *)
LEMMA ShutdownEndsSupervised ==
  ASSUME NEW c, RuntimeConfig(c), RuntimeInv(c), SupervisorInv(c), Runtime(c)!ShutdownEnds
  PROVE  SupervisorInv(c)'
  <1>1. serve = "closed" /\ (\A r \in live : ~Alive(r)) /\ serve' = "down" /\ tracked' = {}
        /\ UNCHANGED <<runner, live, command>>
    BY DEF Runtime!ShutdownEnds, Runtime!Down, Runtime!Alive, Alive
  <1>2. \A r \in c.Runners : ~Alive(r)
    <2> SUFFICES ASSUME NEW r \in c.Runners, Alive(r) PROVE FALSE
      OBVIOUS
    <2>1. r \in tracked \cup live \/ \E k \in c.Commands : command[k] = [at |-> "stopping", target |-> r]
      BY DEF SupervisorInv, Awaited, Runtime!Supervised, Runtime!Alive, Alive
    <2>2. tracked = live /\ \A k \in c.Commands : command[k].at \in {"new", "ended"}
      BY <1>1 DEF SupervisorInv, Awaited
    <2> QED BY <1>1, <2>1, <2>2
  <1>3. FirstAlone(c)'
    BY <1>1 DEF SupervisorInv, FirstAlone, Fresh, Alive, Runtime!OneRunner, Runtime!Alive
  <1>4. Registered(c)'
    BY <1>1 DEF SupervisorInv, Registered
  <1>5. Awaited(c)'
    BY <1>1, <1>2 DEF Awaited, Alive, Runtime!Supervised, Runtime!Alive
  <1> QED BY <1>3, <1>4, <1>5 DEF SupervisorInv

(* A step of a runner starts no runner. *)
LEMMA RanBirth ==
  ASSUME NEW c, NEW r \in c.Runners, RunnersFit(c), Ran(c, r)
  PROVE  NoBirth(c)
  <1>1. \A q \in c.Runners : q # r => runner'[q] = runner[q]
    BY DEF Ran, RunnersFit
  <1>2. runner[r].pc \notin {"unborn", "done"} /\ runner'[r].pc # "unborn"
    BY DEF Ran
  <1> QED BY <1>1, <1>2 DEF NoBirth, Alive

(* Every step keeps the runners supervised. *)
LEMMA SupervisorStep ==
  ASSUME NEW c, RuntimeConfig(c), OneCommand(c), RuntimeInv(c), SupervisorInv(c), Runtime(c)!Next
  PROVE  SupervisorInv(c)'
  <1>1. ASSUME NEW r \in c.Runners,
               Runtime(c)!RunnerStep(r) \/ Runtime(c)!FetchStep(r) \/ Runtime(c)!WatcherFires(r)
        PROVE  SupervisorInv(c)'
    <2>1. Ran(c, r) /\ NoBirth(c)
      BY <1>1, RunnerRan, RanBirth DEF RuntimeInv
    <2>2. UNCHANGED <<tracked, live, serve, command>>
      BY <2>1 DEF Ran
    <2> QED BY <2>1, <2>2, CalmStep DEF RuntimeInv
  <1>2. ASSUME NEW d \in c.Deliveries, Runtime(c)!HandlerEnds(d)
        PROVE  SupervisorInv(c)'
    <2>1. UNCHANGED <<runner, tracked, live, serve, command>>
      BY <1>2 DEF Runtime!HandlerEnds, Runtime!appVars
    <2>2. NoBirth(c)
      BY <2>1 DEF NoBirth, Alive
    <2> QED BY <2>1, <2>2, CalmStep DEF RuntimeInv
  <1>3. CASE Runtime(c)!Control
    <2>1. UNCHANGED <<runner, tracked, live, serve, command>>
      BY <1>3 DEF Runtime!Control, Runtime!RequestShutdown, Runtime!RequestDrain,
                  Runtime!RequestPause, Runtime!RequestResume
    <2>2. NoBirth(c)
      BY <2>1 DEF NoBirth, Alive
    <2> QED BY <2>1, <2>2, CalmStep DEF RuntimeInv
  <1>4. ASSUME NEW k \in c.Commands, Runtime(c)!CommandStep(k) \/ Runtime(c)!CommandTimeout(k)
        PROVE  SupervisorInv(c)'
    BY <1>4, StopBeginsSupervised, StopEndsSupervised, StartEndsSupervised, TimeoutSupervised
       DEF Runtime!CommandStep
  <1>5. CASE Runtime(c)!ServeStep
    BY <1>5, KeepServingSupervised, RunnerFailedSupervised, ServeEndsSupervised,
       CloseResourcesSupervised, ShutdownEndsSupervised DEF Runtime!ServeStep
  <1> QED BY <1>1, <1>2, <1>3, <1>4, <1>5 DEF Runtime!Next

(* The invariants speak of the variables of the runtime only. *)
LEMMA RuntimeStutter ==
  ASSUME NEW c, UNCHANGED Runtime(c)!vars
  PROVE  UNCHANGED <<runner, place, stopping, draining, paused, listed, tracked, live, serve, command>>
  BY DEF Runtime!vars

(* Every step, or none, keeps the inductive invariant. *)
LEMMA RuntimeKept ==
  ASSUME NEW c, RuntimeConfig(c), RuntimeInv(c), [Runtime(c)!Next]_(Runtime(c)!vars)
  PROVE  RuntimeInv(c)'
  <1>1. CASE UNCHANGED Runtime(c)!vars
    BY <1>1, RuntimeStutter DEF RuntimeInv, AppTyped, RunnersFit
  <1> QED BY <1>1, RuntimeStep

(* Every step, or none, keeps the runners supervised. *)
LEMMA SupervisorKept ==
  ASSUME NEW c, RuntimeConfig(c), OneCommand(c), RuntimeInv(c), SupervisorInv(c),
         [Runtime(c)!Next]_(Runtime(c)!vars)
  PROVE  SupervisorInv(c)'
  <1>1. CASE UNCHANGED Runtime(c)!vars
    <2>1. UNCHANGED <<runner, tracked, live, serve, command>>
      BY <1>1, RuntimeStutter
    <2>2. NoBirth(c)
      BY <2>1 DEF NoBirth, Alive
    <2> QED BY <2>1, <2>2, CalmStep DEF RuntimeInv
  <1> QED BY <1>1, SupervisorStep

(* The inductive invariant implies the types. *)
LEMMA RuntimeTypes ==
  ASSUME NEW c, RuntimeInv(c)
  PROVE  Runtime(c)!TypeOK
  <1>1. runner \in [c.Runners -> RunnerStates(c)] /\ PlacesTyped(c, place)
    BY DEF RuntimeInv, RunnersFit
  <1> QED BY <1>1 DEF RuntimeInv, AppTyped, PlacesTyped, RunnerStates, Runtime!TypeOK, Runtime!Pcs

\* Whatever the source, the runners, the commands and the concurrency of a task are,
\* the runners keep their states and the registries their types, and no fetch asks for
\* more than task.concurrency.
THEOREM RuntimeTyped ==
  ASSUME NEW c, RuntimeConfig(c)
  PROVE  Runtime(c)!Spec => []Runtime(c)!TypeOK
  <1>1. Runtime(c)!Init => RuntimeInv(c)
    BY RuntimeInit
  <1>2. RuntimeInv(c) /\ [Runtime(c)!Next]_(Runtime(c)!vars) => RuntimeInv(c)'
    BY RuntimeKept
  <1>3. RuntimeInv(c) => Runtime(c)!TypeOK
    BY RuntimeTypes
  <1> QED BY <1>1, <1>2, <1>3, PTL DEF Runtime!Spec

\* A restart replaces the runner of a task, whatever fails or times out on the way: two
\* runners are never alive at once, and serve(), shutdown() or the command waits for
\* the one that is.
THEOREM RestartSupervised ==
  ASSUME NEW c, RuntimeConfig(c), OneCommand(c)
  PROVE  Runtime(c)!Spec => [](Runtime(c)!OneRunner /\ Runtime(c)!Supervised)
  <1>1. Runtime(c)!Init => RuntimeInv(c) /\ SupervisorInv(c)
    BY RuntimeInit, SupervisorInit
  <1>2. RuntimeInv(c) /\ SupervisorInv(c) /\ [Runtime(c)!Next]_(Runtime(c)!vars)
          => (RuntimeInv(c) /\ SupervisorInv(c))'
    BY RuntimeKept, SupervisorKept
  <1>3. SupervisorInv(c) => Runtime(c)!OneRunner /\ Runtime(c)!Supervised
    BY DEF SupervisorInv, FirstAlone, Awaited
  <1> QED BY <1>1, <1>2, <1>3, PTL DEF Runtime!Spec

--------------------------------------------------------------------------------
(* Nobody restarts the task. *)
NoRestarts(c) == c.Commands = {}

(* A fetch is never cut off, and what it brought too late is given back. *)
FetchesKept(c) == ~c.CancelSafe /\ c.GivesBack

(* serve() leaves its loop when its runner has ended; the list is emptied last. *)
ServedToTheEnd(c) ==
  /\ runner[c.First].pc # "unborn"
  /\ listed \subseteq {c.First} /\ (listed = {} => serve = "down")
  /\ serve # "serving" => runner[c.First].pc = "done"

(* A runner that has ended has nothing left, unless its drain timed out. *)
EndsEmpty(c) ==
  ~c.DrainTimesOut =>
    (runner[c.First].pc = "done" => \A d \in c.Deliveries : place[d].by # c.First)

(* What is said of the only runner of a task. *)
ServingInv(c) ==
  ServedToTheEnd(c) /\ EndsEmpty(c) /\ (FetchesKept(c) => Runtime(c)!NothingLost)

(* Only the first runner is ever born. *)
LEMMA OnlyFirst ==
  ASSUME NEW c, RuntimeConfig(c), NoRestarts(c), RuntimeInv(c), SupervisorInv(c), ServingInv(c)
  PROVE  /\ \A r \in c.Runners : r # c.First => runner[r].pc = "unborn"
         /\ Alive(c.First) => c.First \in live
         /\ ~Alive(c.First) <=> runner[c.First].pc = "done"
         /\ \A d \in c.Deliveries : place[d].by \in {c.First, c.Nobody}
         /\ tracked \subseteq {c.First}
  <1>1. Fresh(c)
    BY DEF Fresh, NoRestarts
  <1>2. /\ \A r \in c.Runners : r # c.First => runner[r].pc = "unborn"
        /\ Alive(c.First) => c.First \in live
    BY <1>1 DEF SupervisorInv, FirstAlone, RuntimeConfig
  <1>3. ~Alive(c.First) <=> runner[c.First].pc = "done"
    BY DEF Alive, ServingInv, ServedToTheEnd
  <1>4. ASSUME NEW d \in c.Deliveries PROVE place[d].by \in {c.First, c.Nobody}
    <2>1. place[d].by \in c.Runners \cup {c.Nobody}
      BY DEF RuntimeInv, RunnersFit, PlacesTyped
    <2>2. place[d].by \in c.Runners => runner[place[d].by].pc # "unborn"
      BY NoneFetched DEF RuntimeInv
    <2> QED BY <1>2, <2>1, <2>2
  <1>5. tracked \subseteq {c.First}
    BY <1>2 DEF SupervisorInv, Registered, RuntimeInv, AppTyped
  <1> QED BY <1>2, <1>3, <1>4, <1>5

(* A step that cancels the registered runners when the only one has ended. *)
LEMMA CancelNobody ==
  ASSUME NEW c, RuntimeConfig(c), NoRestarts(c), RuntimeInv(c), SupervisorInv(c), ServingInv(c),
         runner[c.First].pc = "done", Runtime(c)!CancelRunners(tracked)
  PROVE  /\ runner'[c.First] = runner[c.First] /\ EndsEmpty(c)'
         /\ FetchesKept(c) => Runtime(c)!NothingLost'
  <1>1. tracked \in SUBSET c.Runners /\ tracked \subseteq {c.First}
    BY OnlyFirst DEF RuntimeInv, AppTyped
  <1>2. Runtime(c)!Cancelled(c.First) = runner[c.First]
    BY DEF Runtime!Cancelled
  <1>3. runner'[c.First] = runner[c.First]
    BY <1>1, <1>2, CancelFits DEF RuntimeInv, RuntimeConfig
  <1>4. \A d \in c.Deliveries : place'[d] = place[d] \/ place'[d].by = c.Nobody
    BY <1>1, CancelFits DEF RuntimeInv
  <1>5. \A d \in c.Deliveries : place'[d].at = "lost" => place[d].at = "lost"
    BY <1>1, CancelFits DEF RuntimeInv
  <1>6. EndsEmpty(c)'
    BY <1>3, <1>4 DEF EndsEmpty, ServingInv, RuntimeConfig
  <1>7. FetchesKept(c) => Runtime(c)!NothingLost'
    BY <1>5 DEF ServingInv, Runtime!NothingLost
  <1> QED BY <1>3, <1>6, <1>7

(* Every step keeps the only runner served to its end and nothing lost. *)
LEMMA ServingStep ==
  ASSUME NEW c, RuntimeConfig(c), NoRestarts(c), RuntimeInv(c), SupervisorInv(c), ServingInv(c),
         Runtime(c)!Next
  PROVE  ServingInv(c)'
  <1>1. ASSUME NEW r \in c.Runners,
               Runtime(c)!RunnerStep(r) \/ Runtime(c)!FetchStep(r) \/ Runtime(c)!WatcherFires(r)
        PROVE  ServingInv(c)'
    <2>1. Ran(c, r)
      BY <1>1, RunnerRan DEF RuntimeInv
    <2>2. r = c.First /\ runner[r].pc # "done"
      BY <2>1, OnlyFirst DEF Ran
    <2>3. UNCHANGED <<listed, serve>> /\ runner'[r].pc # "unborn"
      BY <2>1 DEF Ran
    <2>4. ServedToTheEnd(c)'
      BY <2>2, <2>3 DEF ServingInv, ServedToTheEnd
    <2>5. EndsEmpty(c)'
      <3> SUFFICES ASSUME ~c.DrainTimesOut, runner'[r].pc = "done", NEW d \in c.Deliveries
                   PROVE  place'[d].by # r
        BY <2>2 DEF EndsEmpty
      <3>1. runner[r].pc = "finally" /\ place' = place /\ Runtime(c)!Inflight(r) = {}
        BY <2>1 DEF Ran
      <3>2. Mine(c, r, place) = {}
        BY <3>1, OnlyInflight DEF RuntimeInv
      <3> QED BY <3>1, <3>2 DEF Mine
    <2>6. FetchesKept(c) => Runtime(c)!NothingLost'
      BY <2>1 DEF Ran, FetchesKept, ServingInv, Runtime!NothingLost
    <2> QED BY <2>4, <2>5, <2>6 DEF ServingInv, FetchesKept
  <1>2. ASSUME NEW d \in c.Deliveries, Runtime(c)!HandlerEnds(d)
        PROVE  ServingInv(c)'
    <2>1. runner' = runner
          /\ \A e \in c.Deliveries : place'[e] = place[e] \/ (place'[e].by = c.Nobody /\ place'[e].at # "lost")
      BY <1>2, HandlerFits DEF RuntimeInv
    <2>2. UNCHANGED <<listed, serve>>
      BY <1>2 DEF Runtime!HandlerEnds, Runtime!appVars
    <2>3. ServedToTheEnd(c)'
      BY <2>1, <2>2 DEF ServingInv, ServedToTheEnd
    <2>4. EndsEmpty(c)'
      BY <2>1 DEF ServingInv, EndsEmpty, RuntimeConfig
    <2>5. FetchesKept(c) => Runtime(c)!NothingLost'
      BY <2>1 DEF ServingInv, Runtime!NothingLost
    <2> QED BY <2>3, <2>4, <2>5 DEF ServingInv, FetchesKept
  <1>3. CASE Runtime(c)!Control \/ Runtime(c)!KeepServing \/ Runtime(c)!ServeEnds \/ Runtime(c)!ShutdownEnds
    <2>1. runner' = runner /\ place' = place
      BY <1>3 DEF Runtime!Control, Runtime!RequestShutdown, Runtime!RequestDrain, Runtime!RequestPause,
                  Runtime!RequestResume, Runtime!KeepServing, Runtime!ServeEnds, Runtime!ShutdownEnds
    <2>2. \/ UNCHANGED <<listed, serve>>
          \/ serve' # "serving" /\ runner[c.First].pc = "done"
             /\ (listed' = listed \/ (listed' = {} /\ serve' = "down")) /\ serve # "down"
      <3>1. CASE Runtime(c)!Control \/ Runtime(c)!KeepServing
        BY <3>1 DEF Runtime!Control, Runtime!RequestShutdown, Runtime!RequestDrain, Runtime!RequestPause,
                    Runtime!RequestResume, Runtime!KeepServing
      <3>2. CASE Runtime(c)!ServeEnds
        <4>1. listed' = listed /\ serve' = "closing" /\ serve # "down"
          BY <3>2 DEF Runtime!ServeEnds, Runtime!Looks
        <4>2. CASE Runtime(c)!Looks
          BY <4>1, <4>2, LooksDead, OnlyFirst
        <4>3. CASE serve = "failing"
          BY <4>1, <4>3 DEF ServingInv, ServedToTheEnd
        <4> QED BY <3>2, <4>2, <4>3 DEF Runtime!ServeEnds
      <3>3. CASE Runtime(c)!ShutdownEnds
        BY <3>3 DEF Runtime!ShutdownEnds, Runtime!Down, ServingInv, ServedToTheEnd
      <3> QED BY <1>3, <3>1, <3>2, <3>3
    <2>3. ServedToTheEnd(c)'
      BY <2>1, <2>2 DEF ServingInv, ServedToTheEnd
    <2>4. EndsEmpty(c)'
      BY <2>1 DEF ServingInv, EndsEmpty
    <2>5. FetchesKept(c) => Runtime(c)!NothingLost'
      BY <2>1 DEF ServingInv, Runtime!NothingLost
    <2> QED BY <2>3, <2>4, <2>5 DEF ServingInv, FetchesKept
  <1>4. CASE Runtime(c)!RunnerFailed \/ Runtime(c)!CloseResources
    <2>1. Runtime(c)!CancelRunners(tracked) /\ serve' # "serving" /\ serve # "down"
          /\ (listed' = listed \/ (listed' = {} /\ serve' = "down"))
      BY <1>4 DEF Runtime!RunnerFailed, Runtime!CloseResources, Runtime!Looks, Runtime!Down
    <2>2. runner[c.First].pc = "done"
      <3>1. CASE Runtime(c)!RunnerFailed
        BY <3>1, LooksDead, OnlyFirst DEF Runtime!RunnerFailed
      <3>2. CASE Runtime(c)!CloseResources
        BY <3>2 DEF Runtime!CloseResources, ServingInv, ServedToTheEnd
      <3> QED BY <1>4, <3>1, <3>2
    <2>3. /\ runner'[c.First] = runner[c.First] /\ EndsEmpty(c)'
          /\ FetchesKept(c) => Runtime(c)!NothingLost'
      BY <2>1, <2>2, CancelNobody
    <2>4. ServedToTheEnd(c)'
      BY <2>1, <2>2, <2>3 DEF ServingInv, ServedToTheEnd
    <2> QED BY <2>3, <2>4 DEF ServingInv, FetchesKept
  <1> QED BY <1>1, <1>2, <1>3, <1>4 DEF Runtime!Next, Runtime!ServeStep, NoRestarts

(* The only runner is served when serve() starts. *)
LEMMA ServingInit ==
  ASSUME NEW c, RuntimeConfig(c), Runtime(c)!Init
  PROVE  ServingInv(c)
  <1>1. runner[c.First] = Runtime(c)!Born /\ listed = {c.First} /\ serve = "serving"
        /\ \A d \in c.Deliveries : place[d] = Runtime(c)!InQueue
    BY DEF Runtime!Init, RuntimeConfig
  <1>2. Runtime(c)!Born.pc = "loop" /\ Runtime(c)!InQueue.at = "queue"
    BY DEF Runtime!Born, Runtime!Unborn, Runtime!InQueue
  <1> QED BY <1>1, <1>2 DEF ServingInv, ServedToTheEnd, EndsEmpty, Runtime!NothingLost

(* Every step, or none, keeps what is said of the only runner. *)
LEMMA ServingKept ==
  ASSUME NEW c, RuntimeConfig(c), NoRestarts(c), RuntimeInv(c), SupervisorInv(c), ServingInv(c),
         [Runtime(c)!Next]_(Runtime(c)!vars)
  PROVE  ServingInv(c)'
  <1>1. CASE UNCHANGED Runtime(c)!vars
    <2>1. UNCHANGED <<runner, place, listed, serve>>
      BY <1>1, RuntimeStutter
    <2> QED BY <2>1 DEF ServingInv, ServedToTheEnd, EndsEmpty, FetchesKept, Runtime!NothingLost
  <1> QED BY <1>1, ServingStep

(* All three invariants, of a task that nobody restarts. *)
AloneInv(c) == RuntimeInv(c) /\ SupervisorInv(c) /\ ServingInv(c)

(* A task that nobody restarts starts with its invariant. *)
LEMMA AloneInit ==
  ASSUME NEW c, RuntimeConfig(c), Runtime(c)!Init
  PROVE  AloneInv(c)
  BY RuntimeInit, SupervisorInit, ServingInit DEF AloneInv

(* A task that nobody restarts keeps its invariant. *)
LEMMA AloneKept ==
  ASSUME NEW c, RuntimeConfig(c), NoRestarts(c), AloneInv(c), [Runtime(c)!Next]_(Runtime(c)!vars)
  PROVE  AloneInv(c)'
  <1>1. OneCommand(c)
    BY DEF OneCommand, NoRestarts
  <1> QED BY <1>1, RuntimeKept, SupervisorKept, ServingKept DEF AloneInv

(* Whoever is being handled, fetched or held is with the first runner. *)
LEMMA AllWithFirst ==
  ASSUME NEW c, RuntimeConfig(c), NoRestarts(c), AloneInv(c), NEW d \in c.Deliveries,
         place[d].at \in {"fetched", "claimed", "running"}
  PROVE  place[d].by = c.First
  <1>1. place[d].by # c.Nobody
    BY DEF AloneInv, RuntimeInv, RunnersFit, PlacesTyped
  <1> QED BY <1>1, OnlyFirst DEF AloneInv

(* The only runner stays within the concurrency of its task. *)
LEMMA AloneWithin ==
  ASSUME NEW c, RuntimeConfig(c), NoRestarts(c), AloneInv(c)
  PROVE  Runtime(c)!WithinConcurrency
  <1> DEFINE R == {d \in c.Deliveries : place[d].at = "running"}
             M == Mine(c, c.First, place)
  <1>1. R \subseteq M /\ M \subseteq c.Deliveries
    BY AllWithFirst DEF Mine
  <1>2. IsFiniteSet(M) /\ Cardinality(R) \in Nat /\ Cardinality(M) \in Nat
        /\ Runtime(c)!Cardinality(R) = Cardinality(R)
    BY <1>1, FiniteParts
  <1>3. Cardinality(M) <= c.Concurrency
    BY DEF AloneInv, RuntimeInv, RunnersFit, Fits, Bounded, RuntimeConfig
  <1>4. Cardinality(R) <= Cardinality(M)
    BY <1>1, <1>2, FS_Subset
  <1> HIDE DEF M
  <1>5. Cardinality(R) <= c.Concurrency
    BY <1>2, <1>3, <1>4 DEF RuntimeConfig
  <1> QED BY <1>2, <1>5 DEF Runtime!WithinConcurrency

(* Where the only runner is parked or has ended, nothing is in work. *)
LEMMA AloneQuiet ==
  ASSUME NEW c, RuntimeConfig(c), NoRestarts(c), ~c.DrainTimesOut, AloneInv(c)
  PROVE  Runtime(c)!DrainedIsQuiet /\ Runtime(c)!PausedIsQuiet /\ Runtime(c)!OpenWhileHandling
  <1>1. ASSUME runner[c.First].pc = "done" \/ runner[c.First].drainParked \/ runner[c.First].pauseParked
        PROVE  Runtime(c)!Quiet
    <2> SUFFICES ASSUME NEW d \in c.Deliveries, place[d].at \in {"fetched", "claimed", "running"}
                 PROVE  FALSE
      BY DEF Runtime!Quiet
    <2>1. place[d].by = c.First
      BY AllWithFirst
    <2>2. CASE runner[c.First].pc = "done"
      BY <2>1, <2>2 DEF AloneInv, ServingInv, EndsEmpty
    <2>3. CASE runner[c.First].drainParked \/ runner[c.First].pauseParked
      BY <2>1, <2>3, NoneFetched DEF AloneInv, RuntimeInv, RuntimeConfig
    <2> QED BY <1>1, <2>2, <2>3
  <1>2. listed = {} => runner[c.First].pc = "done"
    BY DEF AloneInv, ServingInv, ServedToTheEnd
  <1>3. listed # {} => c.First \in listed
    BY DEF AloneInv, ServingInv, ServedToTheEnd
  <1>4. Runtime(c)!DrainedIsQuiet
    BY <1>1, <1>2, <1>3 DEF Runtime!DrainedIsQuiet, Runtime!Drained
  <1>5. Runtime(c)!PausedIsQuiet
    BY <1>1, <1>2, <1>3 DEF Runtime!PausedIsQuiet, Runtime!PauseComplete
  <1>6. serve \in {"closed", "down"} => runner[c.First].pc = "done"
    BY DEF AloneInv, ServingInv, ServedToTheEnd
  <1>7. Runtime(c)!OpenWhileHandling
    BY <1>1, <1>6 DEF Runtime!OpenWhileHandling, Runtime!Quiet
  <1> QED BY <1>4, <1>5, <1>7

\* At-least-once: of a source whose fetch is never cut off and that takes unstarted
\* deliveries back, nothing is lost, whatever stop control arrives, whatever fails and
\* whatever the drain leaves behind.
THEOREM FetchedNeverLost ==
  ASSUME NEW c, RuntimeConfig(c), NoRestarts(c), FetchesKept(c)
  PROVE  Runtime(c)!Spec => []Runtime(c)!NothingLost
  <1>1. Runtime(c)!Init => AloneInv(c)
    BY AloneInit
  <1>2. AloneInv(c) /\ [Runtime(c)!Next]_(Runtime(c)!vars) => AloneInv(c)'
    BY AloneKept
  <1>3. AloneInv(c) => Runtime(c)!NothingLost
    BY DEF AloneInv, ServingInv
  <1> QED BY <1>1, <1>2, <1>3, PTL DEF Runtime!Spec

\* "drained" and "paused" are reported of a quiet task only, the resources are closed
\* when no delivery is being handled, and no more than task.concurrency are handled at
\* once, provided that the drain of a runner does not time out.
THEOREM ReportedIsQuiet ==
  ASSUME NEW c, RuntimeConfig(c), NoRestarts(c), ~c.DrainTimesOut
  PROVE  Runtime(c)!Spec => []( /\ Runtime(c)!DrainedIsQuiet /\ Runtime(c)!PausedIsQuiet
                                /\ Runtime(c)!OpenWhileHandling /\ Runtime(c)!WithinConcurrency )
  <1> DEFINE P == /\ Runtime(c)!DrainedIsQuiet /\ Runtime(c)!PausedIsQuiet
                  /\ Runtime(c)!OpenWhileHandling /\ Runtime(c)!WithinConcurrency
  <1>1. Runtime(c)!Init => AloneInv(c)
    BY AloneInit
  <1>2. AloneInv(c) /\ [Runtime(c)!Next]_(Runtime(c)!vars) => AloneInv(c)'
    BY AloneKept
  <1>3. AloneInv(c) => P
    BY AloneQuiet, AloneWithin
  <1> QED BY <1>1, <1>2, <1>3, PTL DEF Runtime!Spec

--------------------------------------------------------------------------------
(* One restart at a time, that is not cut off, of a task whose fetches do not *)
(* fail and whose drain does not time out.                                    *)
OrderlyRestart(c) == OneCommand(c) /\ ~c.FetchFails /\ ~c.DrainTimesOut /\ ~c.CommandTimesOut

(* serve() leaves its loop when a shutdown was requested, and a registered    *)
(* runner leaves its own for no other reason.                                 *)
EndsOnRequest(c) ==
  /\ serve # "serving" => stopping /\ serve # "failing"
  /\ ~stopping => \A r \in tracked : ~runner[r].exiting /\ runner[r].pc \notin {"finally", "done"}

(* A runner has a delivery. *)
Has(c, r) == Mine(c, r, place) # {}

(* A runner leaves deliveries behind only when the application stops, and the *)
(* runner that comes after it does not fetch then.                            *)
HandsOver(c) ==
  /\ \A r \in c.Runners : runner[r].pc = "done" /\ Has(c, r) => stopping
  /\ \A r, q \in c.Runners : r # q /\ Alive(q) /\ Has(c, r) =>
       stopping /\ runner[q].pc \in {"loop", "finally"} /\ ~Has(c, q)
  /\ \A r, q \in c.Runners : Has(c, r) /\ Has(c, q) => r = q

(* The order of a restart. *)
ReplacedInv(c) == EndsOnRequest(c) /\ HandsOver(c)

(* A cancellation ends a runner in its finally block only. *)
LEMMA CancelLeaves ==
  ASSUME NEW c, NEW r \in c.Runners, RunnersFit(c)
  PROVE  /\ Runtime(c)!Cancelled(r).pc = "done" => runner[r].pc \in {"done", "finally"}
         /\ runner[r].pc \in {"loop", "finally"} => Runtime(c)!Cancelled(r).pc \in {"finally", "done"}
  <1>1. runner[r] \in RunnerStates(c)
    BY DEF RunnersFit
  <1> QED BY <1>1 DEF RunnerStates, Runtime!Cancelled, Runtime!Exit, Runtime!Finished

(* A step in which deliveries are only given up. *)
LEMMA HandsOverKept ==
  ASSUME NEW c, HandsOver(c), stopping => stopping', NoBirth(c),
         \A d \in c.Deliveries : place'[d] = place[d] \/ place'[d].by = c.Nobody,
         c.Nobody \notin c.Runners,
         \A r \in c.Runners : /\ runner'[r].pc = "done" => runner[r].pc = "done" \/ stopping'
                              /\ runner[r].pc \in {"loop", "finally"} =>
                                   runner'[r].pc \in {"loop", "finally", "done"}
  PROVE  HandsOver(c)'
  <1>1. \A r \in c.Runners : Has(c, r)' => Has(c, r)
    BY DEF Has, Mine
  <1> USE DEF HandsOver
  <1>2. ASSUME NEW r \in c.Runners, runner'[r].pc = "done", Has(c, r)'
        PROVE  stopping'
    BY <1>1, <1>2
  <1>3. ASSUME NEW r \in c.Runners, NEW q \in c.Runners, r # q, Alive(q)', Has(c, r)'
        PROVE  stopping' /\ runner'[q].pc \in {"loop", "finally"} /\ ~Has(c, q)'
    <2>1. Alive(q) /\ Has(c, r)
      BY <1>1, <1>3 DEF NoBirth
    <2>2. stopping /\ runner[q].pc \in {"loop", "finally"} /\ ~Has(c, q)
      BY <1>3, <2>1
    <2> QED BY <1>1, <1>3, <2>2 DEF Alive
  <1>4. \A r, q \in c.Runners : Has(c, r)' /\ Has(c, q)' => r = q
    BY <1>1
  <1> QED BY <1>2, <1>3, <1>4

(* A cancellation hands deliveries over to nobody. *)
LEMMA CancelHandsOver ==
  ASSUME NEW c, RuntimeConfig(c), NEW S \in SUBSET c.Runners, RunnersFit(c), HandsOver(c),
         Runtime(c)!CancelRunners(S), stopping' = stopping,
         ~stopping => \A r \in S : runner[r].pc \notin {"finally", "done"}
  PROVE  HandsOver(c)'
  <1>1. NoBirth(c)
    BY CancelBirth
  <1>2. \A d \in c.Deliveries : place'[d] = place[d] \/ place'[d].by = c.Nobody
    BY CancelFits
  <1>3. ASSUME NEW r \in c.Runners
        PROVE  /\ runner'[r].pc = "done" => runner[r].pc = "done" \/ stopping'
               /\ runner[r].pc \in {"loop", "finally"} => runner'[r].pc \in {"loop", "finally", "done"}
    <2>1. runner'[r] = IF r \in S THEN Runtime(c)!Cancelled(r) ELSE runner[r]
      BY CancelFits
    <2>2. CASE r \in S
      BY <2>1, <2>2, CancelLeaves
    <2>3. CASE r \notin S
      BY <2>1, <2>3
    <2> QED BY <2>2, <2>3
  <1> QED BY <1>1, <1>2, <1>3, HandsOverKept DEF RuntimeConfig

(* A runner in its finally block does nothing but end. *)
LEMMA FinallyEnds ==
  ASSUME NEW c, NEW r \in c.Runners, RunnersFit(c), runner[r].pc = "finally",
         Runtime(c)!RunnerStep(r) \/ Runtime(c)!FetchStep(r) \/ Runtime(c)!WatcherFires(r)
  PROVE  runner'[r].pc = "done"
  <1>1. runner[r].fetch # "running" /\ runner[r] \in RunnerStates(c)
    BY DEF RunnersFit, Fits, Consistent
  <1>2. Runtime(c)!DrainEnds(r)
    BY <1>1 DEF Runtime!RunnerStep, Runtime!FetchStep, Runtime!WatcherFires, Runtime!FetchReturns,
       Runtime!FetchRaises, Runtime!Loop, Runtime!WakeUp, Runtime!ParkEnds, Runtime!Resumed,
       Runtime!AbandonFetch, Runtime!AwaitFetch, Runtime!FetchDone, Runtime!ReleaseOne,
       Runtime!ReleaseEnds, Runtime!BackoffEnds, Runtime!StartHandlers
  <1> QED BY <1>1, <1>2 DEF Runtime!DrainEnds, Runtime!Update, Runtime!Finished, RunnersFit, RunnerStates

(* A step of a runner keeps the order of a restart. *)
LEMMA RanReplaced ==
  ASSUME NEW c, RuntimeConfig(c), OrderlyRestart(c), RuntimeInv(c), SupervisorInv(c), ReplacedInv(c),
         NEW x \in c.Runners,
         Runtime(c)!RunnerStep(x) \/ Runtime(c)!FetchStep(x) \/ Runtime(c)!WatcherFires(x)
  PROVE  ReplacedInv(c)'
  <1>1. Ran(c, x) /\ NoBirth(c)
    BY RunnerRan, RanBirth DEF RuntimeInv
  <1>2. UNCHANGED <<stopping, tracked, serve>>
    BY <1>1 DEF Ran
  <1>3. (\A r \in c.Runners : r # x => runner'[r] = runner[r]) /\ tracked \subseteq c.Runners
    BY <1>1 DEF Ran, RuntimeInv, RunnersFit, AppTyped
  <1>4. EndsOnRequest(c)'
    <2>1. ~runner'[x].failed
      BY <1>1 DEF Ran, Fits, Consistent, OrderlyRestart
    <2>2. runner'[x].exiting = runner[x].exiting
          /\ (runner'[x].pc \in {"finally", "done"} => runner[x].pc = "finally" \/ stopping \/ runner[x].exiting)
      BY <1>1, <2>1 DEF Ran
    <2> QED BY <1>2, <1>3, <2>2 DEF ReplacedInv, EndsOnRequest
  <1>5. \A r \in c.Runners : Alive(r) => r = x
    <2>1. Alive(x)
      BY <1>1 DEF Ran, Alive
    <2> QED BY <2>1 DEF SupervisorInv, FirstAlone, Runtime!OneRunner, Runtime!Alive, Alive
  <1>6. \A d \in c.Deliveries : place'[d].by # x => place'[d] = place[d] \/ place'[d].by = c.Nobody
    BY <1>1 DEF Ran
  <1>7. \A r \in c.Runners : r # x /\ Has(c, r)' => Has(c, r)
    BY <1>6 DEF Has, Mine, RuntimeConfig
  <1>8. ASSUME NEW r \in c.Runners, r # x, Has(c, r)
        PROVE  stopping /\ runner'[x].pc \in {"finally", "done"} /\ ~Has(c, x)'
    <2>1. Alive(x)
      BY <1>1 DEF Ran, Alive
    <2>2. stopping /\ runner[x].pc \in {"loop", "finally"} /\ ~Has(c, x)
      BY <1>8, <2>1 DEF ReplacedInv, HandsOver
    <2>3. runner'[x].pc \in {"finally", "done"}
      <3>1. CASE runner[x].pc = "loop"
        BY <1>1, <2>2, <3>1 DEF Ran
      <3>2. CASE runner[x].pc = "finally"
        BY <3>2, FinallyEnds DEF RuntimeInv
      <3> QED BY <2>2, <3>1, <3>2
    <2>4. runner[x].fetch # "running"
      BY <2>2 DEF RuntimeInv, RunnersFit, Fits, Consistent
    <2>5. \A d \in c.Deliveries : place'[d].by = x => place[d].by = x
      BY <1>1, <2>4 DEF Ran
    <2>6. ~Has(c, x)'
      BY <2>2, <2>5 DEF Has, Mine
    <2> QED BY <2>2, <2>3, <2>6
  <1>9. ASSUME runner'[x].pc = "done" PROVE ~Has(c, x)'
    <2>1. runner[x].pc = "finally" /\ place' = place /\ Runtime(c)!Inflight(x) = {}
      BY <1>1, <1>9 DEF Ran, OrderlyRestart
    <2>2. Mine(c, x, place) = {}
      BY <2>1, OnlyInflight DEF RuntimeInv
    <2> QED BY <2>1, <2>2 DEF Has
  <1>a. HandsOver(c)'
    <2>1. ASSUME NEW r \in c.Runners, runner'[r].pc = "done", Has(c, r)'
          PROVE  stopping'
      <3>1. r # x
        BY <1>9, <2>1
      <3> QED BY <1>2, <1>3, <1>7, <2>1, <3>1 DEF ReplacedInv, HandsOver
    <2>2. ASSUME NEW r \in c.Runners, NEW q \in c.Runners, r # q, Alive(q)', Has(c, r)'
          PROVE  stopping' /\ runner'[q].pc \in {"loop", "finally"} /\ ~Has(c, q)'
      <3>1. Alive(q)
        BY <1>1, <2>2 DEF NoBirth
      <3>2. q = x
        BY <1>5, <3>1
      <3>3. Has(c, r)
        BY <1>7, <2>2, <3>2
      <3>4. stopping /\ runner'[x].pc \in {"finally", "done"} /\ ~Has(c, x)'
        BY <1>8, <2>2, <3>2, <3>3
      <3> QED BY <1>2, <2>2, <3>2, <3>4 DEF Alive
    <2>3. ASSUME NEW r \in c.Runners, NEW q \in c.Runners, Has(c, r)', Has(c, q)' PROVE r = q
      <3>1. CASE r # x /\ q # x
        BY <1>7, <2>3, <3>1 DEF ReplacedInv, HandsOver
      <3>2. CASE r = x /\ q # x
        BY <1>7, <1>8, <2>3, <3>2
      <3>3. CASE r # x /\ q = x
        BY <1>7, <1>8, <2>3, <3>3
      <3> QED BY <3>1, <3>2, <3>3
    <2> QED BY <2>1, <2>2, <2>3 DEF HandsOver
  <1> QED BY <1>4, <1>a DEF ReplacedInv

(* Every step keeps the order of a restart. *)
LEMMA ReplacedStep ==
  ASSUME NEW c, RuntimeConfig(c), OrderlyRestart(c), RuntimeInv(c), SupervisorInv(c), ReplacedInv(c),
         Runtime(c)!Next
  PROVE  ReplacedInv(c)'
  <1>0. \A r \in c.Runners : ~runner[r].failed
    BY DEF RuntimeInv, RunnersFit, Fits, Consistent, OrderlyRestart
  <1>1. ASSUME UNCHANGED runner, stopping => stopping',
               \A d \in c.Deliveries : place'[d] = place[d] \/ place'[d].by = c.Nobody
        PROVE  HandsOver(c)'
    <2>1. NoBirth(c)
      BY <1>1 DEF NoBirth, Alive
    <2>2. \A r \in c.Runners : /\ runner'[r].pc = "done" => runner[r].pc = "done" \/ stopping'
                               /\ runner[r].pc \in {"loop", "finally"} =>
                                    runner'[r].pc \in {"loop", "finally", "done"}
      BY <1>1
    <2> QED BY <1>1, <2>1, <2>2, HandsOverKept DEF ReplacedInv, RuntimeConfig
  <1>2. ASSUME NEW d \in c.Deliveries, Runtime(c)!HandlerEnds(d)
        PROVE  ReplacedInv(c)'
    <2>1. UNCHANGED <<runner, stopping, tracked, serve>>
      BY <1>2 DEF Runtime!HandlerEnds, Runtime!appVars
    <2>2. \A e \in c.Deliveries : place'[e] = place[e] \/ place'[e].by = c.Nobody
      BY <1>2, HandlerFits DEF RuntimeInv
    <2>3. HandsOver(c)'
      BY <1>1, <2>1, <2>2
    <2> QED BY <2>1, <2>3 DEF ReplacedInv, EndsOnRequest
  <1>3. CASE Runtime(c)!Control
    <2>1. UNCHANGED <<runner, place, tracked, serve>> /\ (stopping' = stopping \/ stopping')
      BY <1>3 DEF Runtime!Control, Runtime!RequestShutdown, Runtime!RequestDrain, Runtime!RequestPause,
                  Runtime!RequestResume
    <2>2. HandsOver(c)'
      BY <1>1, <2>1
    <2> QED BY <2>1, <2>2 DEF ReplacedInv, EndsOnRequest
  <1>4. ASSUME NEW k \in c.Commands, Runtime(c)!StopBegins(k)
        PROVE  ReplacedInv(c)'
    <2>1. Runtime(c)!CancelRunners(tracked) /\ tracked' = {} /\ UNCHANGED <<stopping, serve>>
          /\ tracked \in SUBSET c.Runners
      BY <1>4 DEF Runtime!StopBegins, RuntimeInv, AppTyped
    <2>2. HandsOver(c)'
      BY <2>1, CancelHandsOver DEF RuntimeInv, ReplacedInv, EndsOnRequest
    <2> QED BY <2>1, <2>2 DEF ReplacedInv, EndsOnRequest
  <1>5. ASSUME NEW k \in c.Commands, Runtime(c)!StopEnds(k)
        PROVE  ReplacedInv(c)'
    <2>1. UNCHANGED <<runner, place, stopping, tracked, serve>>
      BY <1>5 DEF Runtime!StopEnds
    <2>2. HandsOver(c)'
      BY <1>1, <2>1
    <2> QED BY <2>1, <2>2 DEF ReplacedInv, EndsOnRequest
  <1>6. ASSUME NEW k \in c.Commands, Runtime(c)!StartEnds(k)
        PROVE  ReplacedInv(c)'
    <2>1. PICK x \in c.Runners : /\ runner[x].pc = "unborn"
                                 /\ runner' = [runner EXCEPT ![x] = Runtime(c)!Born]
                                 /\ tracked' = {x}
      BY <1>6 DEF Runtime!StartEnds, Runtime!Update
    <2>2. command[k].at = "starting" /\ UNCHANGED <<place, stopping, serve>>
      BY <1>6 DEF Runtime!StartEnds
    <2>3. Runtime(c)!Born.pc = "loop" /\ ~Runtime(c)!Born.exiting
      BY DEF Runtime!Born, Runtime!Unborn
    <2>4. runner'[x] = Runtime(c)!Born /\ \A q \in c.Runners : q # x => runner'[q] = runner[q]
      BY <2>1 DEF RuntimeInv, RunnersFit
    <2>5. \A q \in c.Runners : ~Alive(q)
      BY <2>2 DEF SupervisorInv, FirstAlone
    <2>6. ~Has(c, x)
      BY <2>1, NoneFetched DEF Has, Mine, RuntimeInv
    <2>7. \A q \in c.Runners : Has(c, q) => runner[q].pc # "unborn"
      BY NoneFetched DEF Has, Mine, RuntimeInv
    <2>8. \A q \in c.Runners : Has(c, q)' <=> Has(c, q)
      BY <2>2 DEF Has
    <2>9. \A q \in c.Runners : Has(c, q) => stopping
      BY <2>5, <2>7 DEF Alive, ReplacedInv, HandsOver
    <2>a. \A q \in c.Runners : Alive(q)' => q = x
      BY <2>4, <2>5 DEF Alive
    <2>b. HandsOver(c)'
      BY <2>2, <2>3, <2>4, <2>6, <2>8, <2>9, <2>a DEF ReplacedInv, HandsOver
    <2>c. EndsOnRequest(c)'
      BY <2>1, <2>2, <2>3, <2>4 DEF ReplacedInv, EndsOnRequest
    <2> QED BY <2>b, <2>c DEF ReplacedInv
  <1>7. ASSUME NEW k \in c.Commands, Runtime(c)!CommandTimeout(k)
        PROVE  ReplacedInv(c)'
    BY <1>7 DEF Runtime!CommandTimeout, OrderlyRestart
  <1>8. CASE Runtime(c)!ServeStep
    <2>1. CASE Runtime(c)!KeepServing \/ Runtime(c)!ShutdownEnds \/ Runtime(c)!ServeEnds
      <3>1. UNCHANGED <<runner, place>> /\ (stopping => stopping')
            /\ (serve' # "serving" => stopping' /\ serve' # "failing")
            /\ (tracked' = tracked \/ tracked' = {}) /\ (stopping' = stopping \/ stopping')
        <4>1. CASE Runtime(c)!KeepServing
          BY <4>1 DEF Runtime!KeepServing, Runtime!Looks
        <4>2. CASE Runtime(c)!ShutdownEnds
          BY <4>2 DEF Runtime!ShutdownEnds, Runtime!Down, ReplacedInv, EndsOnRequest
        <4>3. CASE Runtime(c)!ServeEnds
          BY <4>3 DEF Runtime!ServeEnds
        <4> QED BY <2>1, <4>1, <4>2, <4>3
      <3>2. HandsOver(c)'
        BY <1>1, <3>1
      <3>3. EndsOnRequest(c)'
        BY <3>1 DEF ReplacedInv, EndsOnRequest
      <3> QED BY <3>2, <3>3 DEF ReplacedInv
    <2>2. CASE Runtime(c)!RunnerFailed
      BY <1>0, <2>2 DEF Runtime!RunnerFailed, Runtime!Failed, RuntimeInv, AppTyped
    <2>3. CASE Runtime(c)!CloseResources
      <3>1. serve = "closing" /\ Runtime(c)!CancelRunners(tracked) /\ tracked \in SUBSET c.Runners
            /\ stopping' = stopping /\ serve' # "failing"
        BY <2>3 DEF Runtime!CloseResources, Runtime!Down, RuntimeInv, AppTyped
      <3>2. stopping
        BY <3>1 DEF ReplacedInv, EndsOnRequest
      <3>3. HandsOver(c)'
        BY <3>1, <3>2, CancelHandsOver DEF RuntimeInv, ReplacedInv
      <3> QED BY <3>1, <3>2, <3>3 DEF ReplacedInv, EndsOnRequest
    <2> QED BY <1>8, <2>1, <2>2, <2>3 DEF Runtime!ServeStep
  <1> QED BY <1>2, <1>3, <1>4, <1>5, <1>6, <1>7, <1>8, RanReplaced DEF Runtime!Next, Runtime!CommandStep

(* The order of a restart holds when serve() starts. *)
LEMMA ReplacedInit ==
  ASSUME NEW c, RuntimeConfig(c), Runtime(c)!Init
  PROVE  ReplacedInv(c)
  <1>1. runner[c.First] = Runtime(c)!Born /\ tracked = {c.First} /\ serve = "serving"
        /\ \A d \in c.Deliveries : place[d] = Runtime(c)!InQueue
    BY DEF Runtime!Init, RuntimeConfig
  <1>2. Runtime(c)!Born.pc = "loop" /\ ~Runtime(c)!Born.exiting /\ Runtime(c)!InQueue.by = c.Nobody
    BY DEF Runtime!Born, Runtime!Unborn, Runtime!InQueue
  <1>3. \A r \in c.Runners : ~Has(c, r)
    BY <1>1, <1>2 DEF Has, Mine, RuntimeConfig
  <1> QED BY <1>1, <1>2, <1>3 DEF ReplacedInv, EndsOnRequest, HandsOver

(* All three invariants, of a task that is restarted. *)
RestartInv(c) == RuntimeInv(c) /\ SupervisorInv(c) /\ ReplacedInv(c)

(* A task that is restarted starts with its invariant. *)
LEMMA RestartInit ==
  ASSUME NEW c, RuntimeConfig(c), Runtime(c)!Init
  PROVE  RestartInv(c)
  BY RuntimeInit, SupervisorInit, ReplacedInit DEF RestartInv

(* A task that is restarted keeps its invariant. *)
LEMMA RestartKept ==
  ASSUME NEW c, RuntimeConfig(c), OrderlyRestart(c), RestartInv(c), [Runtime(c)!Next]_(Runtime(c)!vars)
  PROVE  RestartInv(c)'
  <1>1. RuntimeInv(c)' /\ SupervisorInv(c)'
    BY RuntimeKept, SupervisorKept DEF RestartInv, OrderlyRestart
  <1>2. CASE UNCHANGED Runtime(c)!vars
    <2>1. UNCHANGED <<runner, place, stopping, tracked, serve>>
      BY <1>2, RuntimeStutter
    <2>2. ReplacedInv(c)'
      BY <2>1 DEF RestartInv, ReplacedInv, EndsOnRequest, HandsOver, Has, Alive
    <2> QED BY <1>1, <2>2 DEF RestartInv
  <1> QED BY <1>1, <1>2, ReplacedStep DEF RestartInv

(* Two runners of a restart share the concurrency of their task. *)
LEMMA RestartWithin ==
  ASSUME NEW c, RuntimeConfig(c), RestartInv(c)
  PROVE  Runtime(c)!WithinConcurrency
  <1> DEFINE R == {d \in c.Deliveries : place[d].at = "running"}
  <1>1. R \subseteq c.Deliveries
    OBVIOUS
  <1>2. Cardinality(R) \in Nat /\ Runtime(c)!Cardinality(R) = Cardinality(R)
    BY <1>1, FiniteParts
  <1>3. CASE R = {}
    <2>1. Cardinality(R) = 0
      BY <1>3, FS_EmptySet
    <2> QED BY <1>2, <2>1 DEF Runtime!WithinConcurrency, RuntimeConfig
  <1>4. CASE R # {}
    <2>1. PICK e \in R : TRUE
      BY <1>4
    <2> DEFINE r == place[e].by
               M == Mine(c, r, place)
    <2>2. \A d \in R : place[d].by \in c.Runners /\ Has(c, place[d].by)
      BY DEF RestartInv, RuntimeInv, RunnersFit, PlacesTyped, Has, Mine
    <2>3. \A d \in R : place[d].by = r
      BY <2>1, <2>2 DEF RestartInv, ReplacedInv, HandsOver
    <2>4. R \subseteq M /\ M \subseteq c.Deliveries
      BY <2>3 DEF Mine
    <2>5. IsFiniteSet(M) /\ Cardinality(M) \in Nat
      BY <2>4, FiniteParts
    <2>6. Cardinality(M) <= c.Concurrency
      BY <2>1, <2>2 DEF RestartInv, RuntimeInv, RunnersFit, Fits, Bounded
    <2>7. Cardinality(R) <= Cardinality(M)
      BY <2>4, <2>5, FS_Subset
    <2> HIDE DEF M
    <2>8. Cardinality(R) <= c.Concurrency
      BY <1>2, <2>5, <2>6, <2>7 DEF RuntimeConfig
    <2> QED BY <1>2, <2>8 DEF Runtime!WithinConcurrency
  <1> QED BY <1>3, <1>4

(* Between its two runners a restart has no handler at work. *)
LEMMA RestartDrains ==
  ASSUME NEW c, RestartInv(c)
  PROVE  Runtime(c)!DrainBeforeClose
  <1> SUFFICES ASSUME ~stopping, NEW k \in c.Commands, command[k].at = "starting",
                      NEW d \in c.Deliveries, place[d].at = "running"
               PROVE  FALSE
    BY DEF Runtime!DrainBeforeClose
  <1> DEFINE r == place[d].by
  <1>1. r \in c.Runners /\ Has(c, r)
    BY DEF RestartInv, RuntimeInv, RunnersFit, PlacesTyped, Has, Mine
  <1>2. runner[r].pc # "unborn"
    BY <1>1, NoneFetched DEF RestartInv, RuntimeInv
  <1>3. ~Alive(r)
    BY <1>1 DEF RestartInv, SupervisorInv, FirstAlone
  <1> QED BY <1>1, <1>2, <1>3 DEF Alive, RestartInv, ReplacedInv, HandsOver

\* A restart keeps the promises of the task: the deliveries of the runner it stops and of
\* the one it starts never exceed task.concurrency together, and the resources it closes
\* in between are those of a task whose handlers have all returned, unless the
\* application is stopping.
THEOREM RestartKeepsConcurrency ==
  ASSUME NEW c, RuntimeConfig(c), OrderlyRestart(c)
  PROVE  Runtime(c)!Spec => [](Runtime(c)!WithinConcurrency /\ Runtime(c)!DrainBeforeClose)
  <1>1. Runtime(c)!Init => RestartInv(c)
    BY RestartInit
  <1>2. RestartInv(c) /\ [Runtime(c)!Next]_(Runtime(c)!vars) => RestartInv(c)'
    BY RestartKept
  <1>3. RestartInv(c) => Runtime(c)!WithinConcurrency /\ Runtime(c)!DrainBeforeClose
    BY RestartWithin, RestartDrains
  <1> QED BY <1>1, <1>2, <1>3, PTL DEF Runtime!Spec

(* serve() leaves its loop in ServeStep only. *)
LEMMA ServeOutlives ==
  ASSUME NEW c, RuntimeConfig(c), RuntimeInv(c), [Runtime(c)!Next]_(Runtime(c)!vars)
  PROVE  Runtime(c)!ServeOutlivesRestart
  <1> SUFFICES ASSUME Runtime(c)!Next, serve = "serving", serve' # "serving"
               PROVE  stopping \/ \E r \in c.Runners : Runtime(c)!Failed(r)
    BY RuntimeStutter DEF Runtime!ServeOutlivesRestart
  <1>1. ASSUME NEW r \in c.Runners,
               Runtime(c)!RunnerStep(r) \/ Runtime(c)!FetchStep(r) \/ Runtime(c)!WatcherFires(r)
        PROVE  FALSE
    BY <1>1, RunnerRan DEF Ran, RuntimeInv
  <1>2. ASSUME NEW d \in c.Deliveries, Runtime(c)!HandlerEnds(d)
        PROVE  FALSE
    BY <1>2 DEF Runtime!HandlerEnds, Runtime!appVars
  <1>3. ASSUME NEW k \in c.Commands, Runtime(c)!CommandStep(k) \/ Runtime(c)!CommandTimeout(k)
        PROVE  FALSE
    BY <1>3 DEF Runtime!CommandStep, Runtime!StopBegins, Runtime!StopEnds, Runtime!StartEnds,
                Runtime!CommandTimeout
  <1>4. ~Runtime(c)!Control
    BY DEF Runtime!Control, Runtime!RequestShutdown, Runtime!RequestDrain, Runtime!RequestPause,
           Runtime!RequestResume
  <1>5. CASE Runtime(c)!ServeStep
    BY <1>5 DEF Runtime!ServeStep, Runtime!KeepServing, Runtime!RunnerFailed, Runtime!ServeEnds,
                Runtime!CloseResources, Runtime!ShutdownEnds, RuntimeInv, AppTyped
  <1> QED BY <1>1, <1>2, <1>3, <1>4, <1>5 DEF Runtime!Next

\* No restart takes the process down: serve() leaves its loop only when a shutdown was
\* requested or a runner ended with an exception.
THEOREM ServeLeavesForAReason ==
  ASSUME NEW c, RuntimeConfig(c)
  PROVE  Runtime(c)!Spec => [][Runtime(c)!ServeOutlivesRestart]_(Runtime(c)!vars)
  <1>1. Runtime(c)!Init => RuntimeInv(c)
    BY RuntimeInit
  <1>2. RuntimeInv(c) /\ [Runtime(c)!Next]_(Runtime(c)!vars) => RuntimeInv(c)'
    BY RuntimeKept
  <1>3. RuntimeInv(c) /\ [Runtime(c)!Next]_(Runtime(c)!vars)
          => [Runtime(c)!ServeOutlivesRestart]_(Runtime(c)!vars)
    BY ServeOutlives
  <1> QED BY <1>1, <1>2, <1>3, PTL DEF Runtime!Spec

--------------------------------------------------------------------------------
(* A delivery of the execution source. *)

(* A configuration of the execution source. *)
LeaseConfig(c) == c.LeaseTime \in Nat

(* The type of the control state of a delivery. *)
StagesTyped ==
  /\ stage \in {"claimed", "body", "stopHb", "complete", "failing", "cancelEvent", "closing", "done"}
  /\ want \in {"succeeded", "retrying", "failed", "cancelled"}
  /\ inner \in {"todo", "wait", "ok", "cancelWon", "stale", "error"}
  /\ cut \in {"no", "event", "critical", "error"}

(* The type of its flags. *)
FlagsTyped ==
  /\ pend \in BOOLEAN /\ hbPending \in BOOLEAN /\ cancelReq \in BOOLEAN
  /\ completed \in BOOLEAN /\ runnerHit \in BOOLEAN

(* The type of its row and of its heartbeat. *)
RowTyped ==
  /\ row \in {"running", "cancel_requested", "queued", "retrying", "succeeded", "failed", "cancelled"}
  /\ mine \in BOOLEAN
  /\ hb \in {"sleep", "beat", "backoff", "dying", "dyingInBackoff", "off", "done"} /\ stop \in BOOLEAN

(* The lease runs down from its duration. *)
ClocksTyped(c) == lease \in 0..c.LeaseTime /\ seen \in 0..c.LeaseTime

(* The heartbeat task has not ended. *)
Beating == hb \in {"sleep", "beat", "backoff", "dying", "dyingInBackoff"}

(* A completion is made, and reported, when the heartbeat has stopped. *)
BeatsUntilCompleted ==
  /\ stage = "claimed" => hb = "off" /\ ~cancelReq /\ ~completed
  /\ stage \in {"complete", "closing"} \/ completed => ~Beating
  /\ stage \in {"stopHb", "complete"} => ~completed
  /\ stage \in {"claimed", "body"} => want = "succeeded"
  /\ stage = "done" /\ Beating => cut \in {"event", "critical"}

(* Nothing but the heartbeat will cancel the owner, or nothing is left to do. *)
Shielded == hbPending \/ completed \/ (runnerHit /\ ~pend /\ ~Beating)

(* The cancellation the heartbeat has seen is remembered until it is answered; *)
(* a second one reaches the owner only from the runner, and only once.         *)
CancelRemembered ==
  /\ stage = "body" /\ cancelReq => hbPending
  /\ stage \in {"stopHb", "complete"} /\ want = "succeeded" /\ cancelReq => hbPending
  /\ stage = "closing" /\ pend => runnerHit
  /\ stage = "cancelEvent" /\ cancelReq => Shielded
  /\ stage \in {"stopHb", "complete"} /\ want = "cancelled" => Shielded

(* What the backend said it stored is stored. *)
StoredAsSaid ==
  stage = "complete" /\ inner \in {"ok", "cancelWon"} => ~mine /\ row \in {want, "cancelled"}

(* The inductive invariant of a delivery. *)
ManagedInv(c) ==
  /\ StagesTyped /\ FlagsTyped /\ RowTyped /\ ClocksTyped(c)
  /\ BeatsUntilCompleted /\ CancelRemembered /\ StoredAsSaid

(* A claimed delivery starts with its invariant. *)
LEMMA ManagedInit ==
  ASSUME NEW c, LeaseConfig(c), Managed(c)!Init
  PROVE  ManagedInv(c)
  <1>1. StagesTyped /\ FlagsTyped
    BY DEF StagesTyped, FlagsTyped, Managed!Init
  <1>2. RowTyped
    BY DEF RowTyped, Managed!Init
  <1>3. ClocksTyped(c)
    BY DEF LeaseConfig, ClocksTyped, Managed!Init
  <1>4. BeatsUntilCompleted
    BY DEF BeatsUntilCompleted, Beating, Managed!Init
  <1>5. CancelRemembered
    BY DEF CancelRemembered, Managed!Init
  <1>6. StoredAsSaid
    BY DEF StoredAsSaid, Managed!Init
  <1> QED BY <1>1, <1>2, <1>3, <1>4, <1>5, <1>6 DEF ManagedInv

(* The row, its other users and the runner that cancels the owner. *)
LEMMA OthersStep ==
  ASSUME NEW c, LeaseConfig(c), ManagedInv(c),
         Managed(c)!Tick \/ Managed(c)!RequestCancel \/ Managed(c)!Reclaim \/ Managed(c)!RunnerCancel
  PROVE  ManagedInv(c)'
  <1>1. CASE Managed(c)!Tick
    <2>1. StagesTyped'
      BY <1>1 DEF ManagedInv, StagesTyped, Managed!Tick, Managed!hbVars
    <2>7. FlagsTyped'
      BY <1>1 DEF ManagedInv, FlagsTyped, Managed!Tick, Managed!hbVars
    <2>2. RowTyped'
      BY <1>1 DEF ManagedInv, RowTyped, StagesTyped, FlagsTyped, Managed!Tick, Managed!hbVars
    <2>3. ClocksTyped(c)'
      BY <1>1 DEF ManagedInv, LeaseConfig, ClocksTyped, Managed!Tick, Managed!hbVars
    <2>4. BeatsUntilCompleted'
      BY <1>1 DEF ManagedInv, StagesTyped, FlagsTyped, RowTyped, BeatsUntilCompleted, Beating,
         Managed!Tick, Managed!hbVars
    <2>5. CancelRemembered'
      BY <1>1 DEF ManagedInv, StagesTyped, FlagsTyped, RowTyped, BeatsUntilCompleted,
         CancelRemembered, Shielded, Beating, Managed!Tick, Managed!hbVars
    <2>6. StoredAsSaid'
      BY <1>1 DEF ManagedInv, StagesTyped, FlagsTyped, StoredAsSaid, Managed!Tick, Managed!hbVars
    <2> QED BY <2>1, <2>2, <2>3, <2>4, <2>5, <2>6, <2>7 DEF ManagedInv
  <1>2. CASE Managed(c)!RequestCancel
    <2>1. StagesTyped'
      BY <1>2 DEF ManagedInv, StagesTyped, Managed!RequestCancel, Managed!hbVars
    <2>7. FlagsTyped'
      BY <1>2 DEF ManagedInv, FlagsTyped, Managed!RequestCancel, Managed!hbVars
    <2>2. RowTyped'
      BY <1>2 DEF ManagedInv, RowTyped, StagesTyped, FlagsTyped, Managed!RequestCancel,
         Managed!hbVars
    <2>3. ClocksTyped(c)'
      BY <1>2 DEF ManagedInv, LeaseConfig, ClocksTyped, Managed!RequestCancel, Managed!hbVars
    <2>4. BeatsUntilCompleted'
      BY <1>2 DEF ManagedInv, StagesTyped, FlagsTyped, RowTyped, BeatsUntilCompleted, Beating,
         Managed!RequestCancel, Managed!hbVars
    <2>5. CancelRemembered'
      BY <1>2 DEF ManagedInv, StagesTyped, FlagsTyped, RowTyped, BeatsUntilCompleted,
         CancelRemembered, Shielded, Beating, Managed!RequestCancel, Managed!hbVars
    <2>6. StoredAsSaid'
      BY <1>2 DEF ManagedInv, StagesTyped, FlagsTyped, StoredAsSaid, Managed!RequestCancel,
         Managed!hbVars
    <2> QED BY <2>1, <2>2, <2>3, <2>4, <2>5, <2>6, <2>7 DEF ManagedInv
  <1>3. CASE Managed(c)!Reclaim
    <2>1. StagesTyped'
      BY <1>3 DEF ManagedInv, StagesTyped, Managed!Reclaim, Managed!hbVars
    <2>7. FlagsTyped'
      BY <1>3 DEF ManagedInv, FlagsTyped, Managed!Reclaim, Managed!hbVars
    <2>2. RowTyped'
      BY <1>3 DEF ManagedInv, RowTyped, StagesTyped, FlagsTyped, Managed!Reclaim, Managed!hbVars
    <2>3. ClocksTyped(c)'
      BY <1>3 DEF ManagedInv, LeaseConfig, ClocksTyped, Managed!Reclaim, Managed!hbVars
    <2>4. BeatsUntilCompleted'
      BY <1>3 DEF ManagedInv, StagesTyped, FlagsTyped, RowTyped, BeatsUntilCompleted, Beating,
         Managed!Reclaim, Managed!hbVars
    <2>5. CancelRemembered'
      BY <1>3 DEF ManagedInv, StagesTyped, FlagsTyped, RowTyped, BeatsUntilCompleted,
         CancelRemembered, Shielded, Beating, Managed!Reclaim, Managed!hbVars
    <2>6. StoredAsSaid'
      BY <1>3 DEF ManagedInv, StagesTyped, FlagsTyped, StoredAsSaid, Managed!Reclaim, Managed!hbVars
    <2> QED BY <2>1, <2>2, <2>3, <2>4, <2>5, <2>6, <2>7 DEF ManagedInv
  <1>4. CASE Managed(c)!RunnerCancel
    <2>1. StagesTyped'
      BY <1>4 DEF ManagedInv, StagesTyped, Managed!RunnerCancel, Managed!rowVars, Managed!hbVars
    <2>7. FlagsTyped'
      BY <1>4 DEF ManagedInv, FlagsTyped, Managed!RunnerCancel, Managed!rowVars, Managed!hbVars
    <2>2. RowTyped'
      BY <1>4 DEF ManagedInv, RowTyped, StagesTyped, FlagsTyped, Managed!RunnerCancel,
         Managed!rowVars, Managed!hbVars
    <2>3. ClocksTyped(c)'
      BY <1>4 DEF ManagedInv, LeaseConfig, ClocksTyped, Managed!RunnerCancel, Managed!rowVars,
         Managed!hbVars
    <2>4. BeatsUntilCompleted'
      BY <1>4 DEF ManagedInv, StagesTyped, FlagsTyped, RowTyped, BeatsUntilCompleted, Beating,
         Managed!RunnerCancel, Managed!rowVars, Managed!hbVars
    <2>5. CancelRemembered'
      BY <1>4 DEF ManagedInv, StagesTyped, FlagsTyped, RowTyped, BeatsUntilCompleted,
         CancelRemembered, Shielded, Beating, Managed!RunnerCancel, Managed!rowVars, Managed!hbVars
    <2>6. StoredAsSaid'
      BY <1>4 DEF ManagedInv, StagesTyped, FlagsTyped, StoredAsSaid, Managed!RunnerCancel,
         Managed!rowVars, Managed!hbVars
    <2> QED BY <2>1, <2>2, <2>3, <2>4, <2>5, <2>6, <2>7 DEF ManagedInv
  <1> QED BY <1>1, <1>2, <1>3, <1>4

(* The heartbeat task. *)
LEMMA HeartbeatKeeps ==
  ASSUME NEW c, LeaseConfig(c), ManagedInv(c), Managed(c)!HeartbeatStep
  PROVE  ManagedInv(c)'
  <1>1. CASE Managed(c)!HbWake
    <2>1. StagesTyped'
      BY <1>1 DEF ManagedInv, StagesTyped, Managed!HbWake, Managed!rowVars
    <2>7. FlagsTyped'
      BY <1>1 DEF ManagedInv, FlagsTyped, Managed!HbWake, Managed!rowVars
    <2>2. RowTyped'
      BY <1>1 DEF ManagedInv, RowTyped, StagesTyped, FlagsTyped, Managed!HbWake, Managed!rowVars
    <2>3. ClocksTyped(c)'
      BY <1>1 DEF ManagedInv, LeaseConfig, ClocksTyped, Managed!HbWake, Managed!rowVars
    <2>4. BeatsUntilCompleted'
      BY <1>1 DEF ManagedInv, StagesTyped, FlagsTyped, RowTyped, BeatsUntilCompleted, Beating,
         Managed!HbWake, Managed!rowVars
    <2>5. CancelRemembered'
      BY <1>1 DEF ManagedInv, StagesTyped, FlagsTyped, RowTyped, BeatsUntilCompleted,
         CancelRemembered, Shielded, Beating, Managed!HbWake, Managed!rowVars
    <2>6. StoredAsSaid'
      BY <1>1 DEF ManagedInv, StagesTyped, FlagsTyped, StoredAsSaid, Managed!HbWake, Managed!rowVars
    <2> QED BY <2>1, <2>2, <2>3, <2>4, <2>5, <2>6, <2>7 DEF ManagedInv
  <1>2. CASE Managed(c)!HbResult
    <2>1. StagesTyped'
      BY <1>2 DEF ManagedInv, StagesTyped, Managed!HbResult, Managed!CancelOwner, Managed!LeaseHolds
    <2>7. FlagsTyped'
      BY <1>2 DEF ManagedInv, FlagsTyped, Managed!HbResult, Managed!CancelOwner, Managed!LeaseHolds
    <2>2. RowTyped'
      BY <1>2 DEF ManagedInv, RowTyped, StagesTyped, FlagsTyped, Managed!HbResult,
         Managed!CancelOwner, Managed!LeaseHolds
    <2>3. ClocksTyped(c)'
      BY <1>2 DEF ManagedInv, LeaseConfig, ClocksTyped, Managed!HbResult, Managed!CancelOwner,
         Managed!LeaseHolds
    <2>4. BeatsUntilCompleted'
      BY <1>2 DEF ManagedInv, StagesTyped, FlagsTyped, RowTyped, BeatsUntilCompleted, Beating,
         Managed!HbResult, Managed!CancelOwner, Managed!LeaseHolds
    <2>5. CancelRemembered'
      BY <1>2 DEF ManagedInv, StagesTyped, FlagsTyped, RowTyped, BeatsUntilCompleted,
         CancelRemembered, Shielded, Beating, Managed!HbResult, Managed!CancelOwner,
         Managed!LeaseHolds
    <2>6. StoredAsSaid'
      BY <1>2 DEF ManagedInv, StagesTyped, FlagsTyped, StoredAsSaid, Managed!HbResult,
         Managed!CancelOwner, Managed!LeaseHolds
    <2> QED BY <2>1, <2>2, <2>3, <2>4, <2>5, <2>6, <2>7 DEF ManagedInv
  <1>3. CASE Managed(c)!HbStale
    <2>1. StagesTyped'
      BY <1>3 DEF ManagedInv, StagesTyped, Managed!HbStale, Managed!HbGivesUp, Managed!CancelOwner,
         Managed!rowVars
    <2>7. FlagsTyped'
      BY <1>3 DEF ManagedInv, FlagsTyped, Managed!HbStale, Managed!HbGivesUp, Managed!CancelOwner,
         Managed!rowVars
    <2>2. RowTyped'
      BY <1>3 DEF ManagedInv, RowTyped, StagesTyped, FlagsTyped, Managed!HbStale, Managed!HbGivesUp,
         Managed!CancelOwner, Managed!rowVars
    <2>3. ClocksTyped(c)'
      BY <1>3 DEF ManagedInv, LeaseConfig, ClocksTyped, Managed!HbStale, Managed!HbGivesUp,
         Managed!CancelOwner, Managed!rowVars
    <2>4. BeatsUntilCompleted'
      BY <1>3 DEF ManagedInv, StagesTyped, FlagsTyped, RowTyped, BeatsUntilCompleted, Beating,
         Managed!HbStale, Managed!HbGivesUp, Managed!CancelOwner, Managed!rowVars
    <2>5. CancelRemembered'
      BY <1>3 DEF ManagedInv, StagesTyped, FlagsTyped, RowTyped, BeatsUntilCompleted,
         CancelRemembered, Shielded, Beating, Managed!HbStale, Managed!HbGivesUp,
         Managed!CancelOwner, Managed!rowVars
    <2>6. StoredAsSaid'
      BY <1>3 DEF ManagedInv, StagesTyped, FlagsTyped, StoredAsSaid, Managed!HbStale,
         Managed!HbGivesUp, Managed!CancelOwner, Managed!rowVars
    <2> QED BY <2>1, <2>2, <2>3, <2>4, <2>5, <2>6, <2>7 DEF ManagedInv
  <1>4. CASE Managed(c)!HbError
    <2>1. StagesTyped'
      BY <1>4 DEF ManagedInv, StagesTyped, Managed!HbError, Managed!HbGivesUp, Managed!CancelOwner,
         Managed!LeaseHolds
    <2>7. FlagsTyped'
      BY <1>4 DEF ManagedInv, FlagsTyped, Managed!HbError, Managed!HbGivesUp, Managed!CancelOwner,
         Managed!LeaseHolds
    <2>2. RowTyped'
      BY <1>4 DEF ManagedInv, RowTyped, StagesTyped, FlagsTyped, Managed!HbError, Managed!HbGivesUp,
         Managed!CancelOwner, Managed!LeaseHolds
    <2>3. ClocksTyped(c)'
      BY <1>4 DEF ManagedInv, LeaseConfig, ClocksTyped, Managed!HbError, Managed!HbGivesUp,
         Managed!CancelOwner, Managed!LeaseHolds
    <2>4. BeatsUntilCompleted'
      BY <1>4 DEF ManagedInv, StagesTyped, FlagsTyped, RowTyped, BeatsUntilCompleted, Beating,
         Managed!HbError, Managed!HbGivesUp, Managed!CancelOwner, Managed!LeaseHolds
    <2>5. CancelRemembered'
      BY <1>4 DEF ManagedInv, StagesTyped, FlagsTyped, RowTyped, BeatsUntilCompleted,
         CancelRemembered, Shielded, Beating, Managed!HbError, Managed!HbGivesUp,
         Managed!CancelOwner, Managed!LeaseHolds
    <2>6. StoredAsSaid'
      BY <1>4 DEF ManagedInv, StagesTyped, FlagsTyped, StoredAsSaid, Managed!HbError,
         Managed!HbGivesUp, Managed!CancelOwner, Managed!LeaseHolds
    <2> QED BY <2>1, <2>2, <2>3, <2>4, <2>5, <2>6, <2>7 DEF ManagedInv
  <1>5. CASE Managed(c)!HbDies
    <2>1. StagesTyped'
      BY <1>5 DEF ManagedInv, StagesTyped, Managed!HbDies, Managed!CancelOwner, Managed!rowVars
    <2>7. FlagsTyped'
      BY <1>5 DEF ManagedInv, FlagsTyped, Managed!HbDies, Managed!CancelOwner, Managed!rowVars
    <2>2. RowTyped'
      BY <1>5 DEF ManagedInv, RowTyped, StagesTyped, FlagsTyped, Managed!HbDies,
         Managed!CancelOwner, Managed!rowVars
    <2>3. ClocksTyped(c)'
      BY <1>5 DEF ManagedInv, LeaseConfig, ClocksTyped, Managed!HbDies, Managed!CancelOwner,
         Managed!rowVars
    <2>4. BeatsUntilCompleted'
      BY <1>5 DEF ManagedInv, StagesTyped, FlagsTyped, RowTyped, BeatsUntilCompleted, Beating,
         Managed!HbDies, Managed!CancelOwner, Managed!rowVars
    <2>5. CancelRemembered'
      BY <1>5 DEF ManagedInv, StagesTyped, FlagsTyped, RowTyped, BeatsUntilCompleted,
         CancelRemembered, Shielded, Beating, Managed!HbDies, Managed!CancelOwner, Managed!rowVars
    <2>6. StoredAsSaid'
      BY <1>5 DEF ManagedInv, StagesTyped, FlagsTyped, StoredAsSaid, Managed!HbDies,
         Managed!CancelOwner, Managed!rowVars
    <2> QED BY <2>1, <2>2, <2>3, <2>4, <2>5, <2>6, <2>7 DEF ManagedInv
  <1> QED BY <1>1, <1>2, <1>3, <1>4, <1>5 DEF Managed!HeartbeatStep

(* The delivery is started or given back, and its handler ends. *)
LEMMA BodyKeeps ==
  ASSUME NEW c, LeaseConfig(c), ManagedInv(c),
         \/ Managed(c)!ReleaseUnstarted \/ Managed(c)!StartProcessing
         \/ Managed(c)!BodySucceeds \/ Managed(c)!BodyFails
  PROVE  ManagedInv(c)'
  <1>1. CASE Managed(c)!ReleaseUnstarted
    <2>1. StagesTyped'
      BY <1>1 DEF ManagedInv, StagesTyped, Managed!ReleaseUnstarted, Managed!hbVars
    <2>7. FlagsTyped'
      BY <1>1 DEF ManagedInv, FlagsTyped, Managed!ReleaseUnstarted, Managed!hbVars
    <2>2. RowTyped'
      BY <1>1 DEF ManagedInv, RowTyped, StagesTyped, FlagsTyped, Managed!ReleaseUnstarted,
         Managed!hbVars
    <2>3. ClocksTyped(c)'
      BY <1>1 DEF ManagedInv, LeaseConfig, ClocksTyped, Managed!ReleaseUnstarted, Managed!hbVars
    <2>4. BeatsUntilCompleted'
      BY <1>1 DEF ManagedInv, StagesTyped, FlagsTyped, RowTyped, BeatsUntilCompleted, Beating,
         Managed!ReleaseUnstarted, Managed!hbVars
    <2>5. CancelRemembered'
      BY <1>1 DEF ManagedInv, StagesTyped, FlagsTyped, RowTyped, BeatsUntilCompleted,
         CancelRemembered, Shielded, Beating, Managed!ReleaseUnstarted, Managed!hbVars
    <2>6. StoredAsSaid'
      BY <1>1 DEF ManagedInv, StagesTyped, FlagsTyped, StoredAsSaid, Managed!ReleaseUnstarted,
         Managed!hbVars
    <2> QED BY <2>1, <2>2, <2>3, <2>4, <2>5, <2>6, <2>7 DEF ManagedInv
  <1>2. CASE Managed(c)!StartProcessing
    <2>1. StagesTyped'
      BY <1>2 DEF ManagedInv, StagesTyped, Managed!StartProcessing, Managed!rowVars
    <2>7. FlagsTyped'
      BY <1>2 DEF ManagedInv, FlagsTyped, Managed!StartProcessing, Managed!rowVars
    <2>2. RowTyped'
      BY <1>2 DEF ManagedInv, RowTyped, StagesTyped, FlagsTyped, Managed!StartProcessing,
         Managed!rowVars
    <2>3. ClocksTyped(c)'
      BY <1>2 DEF ManagedInv, LeaseConfig, ClocksTyped, Managed!StartProcessing, Managed!rowVars
    <2>4. BeatsUntilCompleted'
      BY <1>2 DEF ManagedInv, StagesTyped, FlagsTyped, RowTyped, BeatsUntilCompleted, Beating,
         Managed!StartProcessing, Managed!rowVars
    <2>5. CancelRemembered'
      BY <1>2 DEF ManagedInv, StagesTyped, FlagsTyped, RowTyped, BeatsUntilCompleted,
         CancelRemembered, Shielded, Beating, Managed!StartProcessing, Managed!rowVars
    <2>6. StoredAsSaid'
      BY <1>2 DEF ManagedInv, StagesTyped, FlagsTyped, StoredAsSaid, Managed!StartProcessing,
         Managed!rowVars
    <2> QED BY <2>1, <2>2, <2>3, <2>4, <2>5, <2>6, <2>7 DEF ManagedInv
  <1>3. CASE Managed(c)!BodySucceeds
    <2>1. StagesTyped'
      BY <1>3 DEF ManagedInv, StagesTyped, Managed!BodySucceeds, Managed!Completing,
         Managed!rowVars, Managed!hbVars
    <2>7. FlagsTyped'
      BY <1>3 DEF ManagedInv, FlagsTyped, Managed!BodySucceeds, Managed!Completing, Managed!rowVars,
         Managed!hbVars
    <2>2. RowTyped'
      BY <1>3 DEF ManagedInv, RowTyped, StagesTyped, FlagsTyped, Managed!BodySucceeds,
         Managed!Completing, Managed!rowVars, Managed!hbVars
    <2>3. ClocksTyped(c)'
      BY <1>3 DEF ManagedInv, LeaseConfig, ClocksTyped, Managed!BodySucceeds, Managed!Completing,
         Managed!rowVars, Managed!hbVars
    <2>4. BeatsUntilCompleted'
      BY <1>3 DEF ManagedInv, StagesTyped, FlagsTyped, RowTyped, BeatsUntilCompleted, Beating,
         Managed!BodySucceeds, Managed!Completing, Managed!rowVars, Managed!hbVars
    <2>5. CancelRemembered'
      BY <1>3 DEF ManagedInv, StagesTyped, FlagsTyped, RowTyped, BeatsUntilCompleted,
         CancelRemembered, Shielded, Beating, Managed!BodySucceeds, Managed!Completing,
         Managed!rowVars, Managed!hbVars
    <2>6. StoredAsSaid'
      BY <1>3 DEF ManagedInv, StagesTyped, FlagsTyped, StoredAsSaid, Managed!BodySucceeds,
         Managed!Completing, Managed!rowVars, Managed!hbVars
    <2> QED BY <2>1, <2>2, <2>3, <2>4, <2>5, <2>6, <2>7 DEF ManagedInv
  <1>4. CASE Managed(c)!BodyFails
    <2>1. StagesTyped'
      BY <1>4 DEF ManagedInv, StagesTyped, Managed!BodyFails, Managed!rowVars, Managed!hbVars
    <2>7. FlagsTyped'
      BY <1>4 DEF ManagedInv, FlagsTyped, Managed!BodyFails, Managed!rowVars, Managed!hbVars
    <2>2. RowTyped'
      BY <1>4 DEF ManagedInv, RowTyped, StagesTyped, FlagsTyped, Managed!BodyFails, Managed!rowVars,
         Managed!hbVars
    <2>3. ClocksTyped(c)'
      BY <1>4 DEF ManagedInv, LeaseConfig, ClocksTyped, Managed!BodyFails, Managed!rowVars,
         Managed!hbVars
    <2>4. BeatsUntilCompleted'
      BY <1>4 DEF ManagedInv, StagesTyped, FlagsTyped, RowTyped, BeatsUntilCompleted, Beating,
         Managed!BodyFails, Managed!rowVars, Managed!hbVars
    <2>5. CancelRemembered'
      BY <1>4 DEF ManagedInv, StagesTyped, FlagsTyped, RowTyped, BeatsUntilCompleted,
         CancelRemembered, Shielded, Beating, Managed!BodyFails, Managed!rowVars, Managed!hbVars
    <2>6. StoredAsSaid'
      BY <1>4 DEF ManagedInv, StagesTyped, FlagsTyped, StoredAsSaid, Managed!BodyFails,
         Managed!rowVars, Managed!hbVars
    <2> QED BY <2>1, <2>2, <2>3, <2>4, <2>5, <2>6, <2>7 DEF ManagedInv
  <1> QED BY <1>1, <1>2, <1>3, <1>4

(* The owner task. *)
LEMMA OwnerKeeps ==
  ASSUME NEW c, LeaseConfig(c), ManagedInv(c), Managed(c)!OwnerStep
  PROVE  ManagedInv(c)'
  <1>1. CASE Managed(c)!FailureHandled
    <2>1. StagesTyped'
      BY <1>1 DEF ManagedInv, StagesTyped, Managed!FailureHandled, Managed!Completing,
         Managed!rowVars, Managed!hbVars
    <2>7. FlagsTyped'
      BY <1>1 DEF ManagedInv, FlagsTyped, Managed!FailureHandled, Managed!Completing,
         Managed!rowVars, Managed!hbVars
    <2>2. RowTyped'
      BY <1>1 DEF ManagedInv, RowTyped, StagesTyped, FlagsTyped, Managed!FailureHandled,
         Managed!Completing, Managed!rowVars, Managed!hbVars
    <2>3. ClocksTyped(c)'
      BY <1>1 DEF ManagedInv, LeaseConfig, ClocksTyped, Managed!FailureHandled, Managed!Completing,
         Managed!rowVars, Managed!hbVars
    <2>4. BeatsUntilCompleted'
      BY <1>1 DEF ManagedInv, StagesTyped, FlagsTyped, RowTyped, BeatsUntilCompleted, Beating,
         Managed!FailureHandled, Managed!Completing, Managed!rowVars, Managed!hbVars
    <2>5. CancelRemembered'
      BY <1>1 DEF ManagedInv, StagesTyped, FlagsTyped, RowTyped, BeatsUntilCompleted,
         CancelRemembered, Shielded, Beating, Managed!FailureHandled, Managed!Completing,
         Managed!rowVars, Managed!hbVars
    <2>6. StoredAsSaid'
      BY <1>1 DEF ManagedInv, StagesTyped, FlagsTyped, StoredAsSaid, Managed!FailureHandled,
         Managed!Completing, Managed!rowVars, Managed!hbVars
    <2> QED BY <2>1, <2>2, <2>3, <2>4, <2>5, <2>6, <2>7 DEF ManagedInv
  <1>2. CASE Managed(c)!CancelHandled
    <2>1. StagesTyped'
      BY <1>2 DEF ManagedInv, StagesTyped, Managed!CancelHandled, Managed!Completing,
         Managed!rowVars, Managed!hbVars
    <2>7. FlagsTyped'
      BY <1>2 DEF ManagedInv, FlagsTyped, Managed!CancelHandled, Managed!Completing,
         Managed!rowVars, Managed!hbVars
    <2>2. RowTyped'
      BY <1>2 DEF ManagedInv, RowTyped, StagesTyped, FlagsTyped, Managed!CancelHandled,
         Managed!Completing, Managed!rowVars, Managed!hbVars
    <2>3. ClocksTyped(c)'
      BY <1>2 DEF ManagedInv, LeaseConfig, ClocksTyped, Managed!CancelHandled, Managed!Completing,
         Managed!rowVars, Managed!hbVars
    <2>4. BeatsUntilCompleted'
      BY <1>2 DEF ManagedInv, StagesTyped, FlagsTyped, RowTyped, BeatsUntilCompleted, Beating,
         Managed!CancelHandled, Managed!Completing, Managed!rowVars, Managed!hbVars
    <2>5. CancelRemembered'
      BY <1>2 DEF ManagedInv, StagesTyped, FlagsTyped, RowTyped, BeatsUntilCompleted,
         CancelRemembered, Shielded, Beating, Managed!CancelHandled, Managed!Completing,
         Managed!rowVars, Managed!hbVars
    <2>6. StoredAsSaid'
      BY <1>2 DEF ManagedInv, StagesTyped, FlagsTyped, StoredAsSaid, Managed!CancelHandled,
         Managed!Completing, Managed!rowVars, Managed!hbVars
    <2> QED BY <2>1, <2>2, <2>3, <2>4, <2>5, <2>6, <2>7 DEF ManagedInv
  <1>3. CASE Managed(c)!Cancelled
    <2>1. StagesTyped'
      BY <1>3 DEF ManagedInv, StagesTyped, Managed!Cancelled, Managed!Raised, Managed!rowVars,
         Managed!hbVars
    <2>7. FlagsTyped'
      BY <1>3 DEF ManagedInv, FlagsTyped, Managed!Cancelled, Managed!Raised, Managed!rowVars,
         Managed!hbVars
    <2>2. RowTyped'
      BY <1>3 DEF ManagedInv, RowTyped, StagesTyped, FlagsTyped, Managed!Cancelled, Managed!Raised,
         Managed!rowVars, Managed!hbVars
    <2>3. ClocksTyped(c)'
      BY <1>3 DEF ManagedInv, LeaseConfig, ClocksTyped, Managed!Cancelled, Managed!Raised,
         Managed!rowVars, Managed!hbVars
    <2>4. BeatsUntilCompleted'
      BY <1>3 DEF ManagedInv, StagesTyped, FlagsTyped, RowTyped, BeatsUntilCompleted, Beating,
         Managed!Cancelled, Managed!Raised, Managed!rowVars, Managed!hbVars
    <2>5. CancelRemembered'
      BY <1>3 DEF ManagedInv, StagesTyped, FlagsTyped, RowTyped, BeatsUntilCompleted,
         CancelRemembered, Shielded, Beating, Managed!Cancelled, Managed!Raised, Managed!rowVars,
         Managed!hbVars
    <2>6. StoredAsSaid'
      BY <1>3 DEF ManagedInv, StagesTyped, FlagsTyped, StoredAsSaid, Managed!Cancelled,
         Managed!Raised, Managed!rowVars, Managed!hbVars
    <2> QED BY <2>1, <2>2, <2>3, <2>4, <2>5, <2>6, <2>7 DEF ManagedInv
  <1>4. CASE Managed(c)!Closed
    <2>1. StagesTyped'
      BY <1>4 DEF ManagedInv, StagesTyped, Managed!Closed, Managed!rowVars, Managed!hbVars
    <2>7. FlagsTyped'
      BY <1>4 DEF ManagedInv, FlagsTyped, Managed!Closed, Managed!rowVars, Managed!hbVars
    <2>2. RowTyped'
      BY <1>4 DEF ManagedInv, RowTyped, StagesTyped, FlagsTyped, Managed!Closed, Managed!rowVars,
         Managed!hbVars
    <2>3. ClocksTyped(c)'
      BY <1>4 DEF ManagedInv, LeaseConfig, ClocksTyped, Managed!Closed, Managed!rowVars,
         Managed!hbVars
    <2>4. BeatsUntilCompleted'
      BY <1>4 DEF ManagedInv, StagesTyped, FlagsTyped, RowTyped, BeatsUntilCompleted, Beating,
         Managed!Closed, Managed!rowVars, Managed!hbVars
    <2>5. CancelRemembered'
      BY <1>4 DEF ManagedInv, StagesTyped, FlagsTyped, RowTyped, BeatsUntilCompleted,
         CancelRemembered, Shielded, Beating, Managed!Closed, Managed!rowVars, Managed!hbVars
    <2>6. StoredAsSaid'
      BY <1>4 DEF ManagedInv, StagesTyped, FlagsTyped, StoredAsSaid, Managed!Closed,
         Managed!rowVars, Managed!hbVars
    <2> QED BY <2>1, <2>2, <2>3, <2>4, <2>5, <2>6, <2>7 DEF ManagedInv
  <1>5. CASE Managed(c)!StopHeartbeat
    <2>1. StagesTyped'
      BY <1>5 DEF ManagedInv, StagesTyped, Managed!StopHeartbeat, Managed!rowVars
    <2>7. FlagsTyped'
      BY <1>5 DEF ManagedInv, FlagsTyped, Managed!StopHeartbeat, Managed!rowVars
    <2>2. RowTyped'
      BY <1>5 DEF ManagedInv, RowTyped, StagesTyped, FlagsTyped, Managed!StopHeartbeat,
         Managed!rowVars
    <2>3. ClocksTyped(c)'
      BY <1>5 DEF ManagedInv, LeaseConfig, ClocksTyped, Managed!StopHeartbeat, Managed!rowVars
    <2>4. BeatsUntilCompleted'
      BY <1>5 DEF ManagedInv, StagesTyped, FlagsTyped, RowTyped, BeatsUntilCompleted, Beating,
         Managed!StopHeartbeat, Managed!rowVars
    <2>5. CancelRemembered'
      BY <1>5 DEF ManagedInv, StagesTyped, FlagsTyped, RowTyped, BeatsUntilCompleted,
         CancelRemembered, Shielded, Beating, Managed!StopHeartbeat, Managed!rowVars
    <2>6. StoredAsSaid'
      BY <1>5 DEF ManagedInv, StagesTyped, FlagsTyped, StoredAsSaid, Managed!StopHeartbeat,
         Managed!rowVars
    <2> QED BY <2>1, <2>2, <2>3, <2>4, <2>5, <2>6, <2>7 DEF ManagedInv
  <1>6. CASE Managed(c)!BackendComplete
    <2>1. StagesTyped'
      BY <1>6 DEF ManagedInv, StagesTyped, Managed!BackendComplete, Managed!MayStore,
         Managed!Stored, Managed!LeaseHolds, Managed!hbVars
    <2>7. FlagsTyped'
      BY <1>6 DEF ManagedInv, FlagsTyped, Managed!BackendComplete, Managed!MayStore, Managed!Stored,
         Managed!LeaseHolds, Managed!hbVars
    <2>2. RowTyped'
      BY <1>6 DEF ManagedInv, RowTyped, StagesTyped, FlagsTyped, Managed!BackendComplete,
         Managed!MayStore, Managed!Stored, Managed!LeaseHolds, Managed!hbVars
    <2>3. ClocksTyped(c)'
      BY <1>6 DEF ManagedInv, LeaseConfig, ClocksTyped, Managed!BackendComplete, Managed!MayStore,
         Managed!Stored, Managed!LeaseHolds, Managed!hbVars
    <2>4. BeatsUntilCompleted'
      BY <1>6 DEF ManagedInv, StagesTyped, FlagsTyped, RowTyped, BeatsUntilCompleted, Beating,
         Managed!BackendComplete, Managed!MayStore, Managed!Stored, Managed!LeaseHolds,
         Managed!hbVars
    <2>5. CancelRemembered'
      BY <1>6 DEF ManagedInv, StagesTyped, FlagsTyped, RowTyped, BeatsUntilCompleted,
         CancelRemembered, Shielded, Beating, Managed!BackendComplete, Managed!MayStore,
         Managed!Stored, Managed!LeaseHolds, Managed!hbVars
    <2>6. StoredAsSaid'
      BY <1>6 DEF ManagedInv, StagesTyped, FlagsTyped, StoredAsSaid, Managed!BackendComplete,
         Managed!MayStore, Managed!Stored, Managed!LeaseHolds, Managed!hbVars
    <2> QED BY <2>1, <2>2, <2>3, <2>4, <2>5, <2>6, <2>7 DEF ManagedInv
  <1>7. CASE Managed(c)!BackendCompleteFails
    <2>1. StagesTyped'
      BY <1>7 DEF ManagedInv, StagesTyped, Managed!BackendCompleteFails, Managed!MayStore,
         Managed!Stored, Managed!LeaseHolds, Managed!hbVars
    <2>7. FlagsTyped'
      BY <1>7 DEF ManagedInv, FlagsTyped, Managed!BackendCompleteFails, Managed!MayStore,
         Managed!Stored, Managed!LeaseHolds, Managed!hbVars
    <2>2. RowTyped'
      BY <1>7 DEF ManagedInv, RowTyped, StagesTyped, FlagsTyped, Managed!BackendCompleteFails,
         Managed!MayStore, Managed!Stored, Managed!LeaseHolds, Managed!hbVars
    <2>3. ClocksTyped(c)'
      BY <1>7 DEF ManagedInv, LeaseConfig, ClocksTyped, Managed!BackendCompleteFails,
         Managed!MayStore, Managed!Stored, Managed!LeaseHolds, Managed!hbVars
    <2>4. BeatsUntilCompleted'
      BY <1>7 DEF ManagedInv, StagesTyped, FlagsTyped, RowTyped, BeatsUntilCompleted, Beating,
         Managed!BackendCompleteFails, Managed!MayStore, Managed!Stored, Managed!LeaseHolds,
         Managed!hbVars
    <2>5. CancelRemembered'
      BY <1>7 DEF ManagedInv, StagesTyped, FlagsTyped, RowTyped, BeatsUntilCompleted,
         CancelRemembered, Shielded, Beating, Managed!BackendCompleteFails, Managed!MayStore,
         Managed!Stored, Managed!LeaseHolds, Managed!hbVars
    <2>6. StoredAsSaid'
      BY <1>7 DEF ManagedInv, StagesTyped, FlagsTyped, StoredAsSaid, Managed!BackendCompleteFails,
         Managed!MayStore, Managed!Stored, Managed!LeaseHolds, Managed!hbVars
    <2> QED BY <2>1, <2>2, <2>3, <2>4, <2>5, <2>6, <2>7 DEF ManagedInv
  <1>8. CASE Managed(c)!Abort
    <2>1. StagesTyped'
      BY <1>8 DEF ManagedInv, StagesTyped, Managed!Abort, Managed!MayAbort, Managed!Raised,
         Managed!MayStore, Managed!Stored, Managed!LeaseHolds, Managed!InnerDone, Managed!HbAlive,
         Managed!hbVars
    <2>7. FlagsTyped'
      BY <1>8 DEF ManagedInv, FlagsTyped, Managed!Abort, Managed!MayAbort, Managed!Raised,
         Managed!MayStore, Managed!Stored, Managed!LeaseHolds, Managed!InnerDone, Managed!HbAlive,
         Managed!hbVars
    <2>2. RowTyped'
      BY <1>8 DEF ManagedInv, RowTyped, StagesTyped, FlagsTyped, Managed!Abort, Managed!MayAbort,
         Managed!Raised, Managed!MayStore, Managed!Stored, Managed!LeaseHolds, Managed!InnerDone,
         Managed!HbAlive, Managed!hbVars
    <2>3. ClocksTyped(c)'
      BY <1>8 DEF ManagedInv, LeaseConfig, ClocksTyped, Managed!Abort, Managed!MayAbort,
         Managed!Raised, Managed!MayStore, Managed!Stored, Managed!LeaseHolds, Managed!InnerDone,
         Managed!HbAlive, Managed!hbVars
    <2>4. BeatsUntilCompleted'
      BY <1>8 DEF ManagedInv, StagesTyped, FlagsTyped, RowTyped, BeatsUntilCompleted, Beating,
         Managed!Abort, Managed!MayAbort, Managed!Raised, Managed!MayStore, Managed!Stored,
         Managed!LeaseHolds, Managed!InnerDone, Managed!HbAlive, Managed!hbVars
    <2>5. CancelRemembered'
      BY <1>8 DEF ManagedInv, StagesTyped, FlagsTyped, RowTyped, BeatsUntilCompleted,
         CancelRemembered, Shielded, Beating, Managed!Abort, Managed!MayAbort, Managed!Raised,
         Managed!MayStore, Managed!Stored, Managed!LeaseHolds, Managed!InnerDone, Managed!HbAlive,
         Managed!hbVars
    <2>6. StoredAsSaid'
      BY <1>8 DEF ManagedInv, StagesTyped, FlagsTyped, StoredAsSaid, Managed!Abort,
         Managed!MayAbort, Managed!Raised, Managed!MayStore, Managed!Stored, Managed!LeaseHolds,
         Managed!InnerDone, Managed!HbAlive, Managed!hbVars
    <2> QED BY <2>1, <2>2, <2>3, <2>4, <2>5, <2>6, <2>7 DEF ManagedInv
  <1>9. CASE Managed(c)!Swallow
    <2>1. StagesTyped'
      BY <1>9 DEF ManagedInv, StagesTyped, Managed!Swallow, Managed!rowVars, Managed!hbVars
    <2>7. FlagsTyped'
      BY <1>9 DEF ManagedInv, FlagsTyped, Managed!Swallow, Managed!rowVars, Managed!hbVars
    <2>2. RowTyped'
      BY <1>9 DEF ManagedInv, RowTyped, StagesTyped, FlagsTyped, Managed!Swallow, Managed!rowVars,
         Managed!hbVars
    <2>3. ClocksTyped(c)'
      BY <1>9 DEF ManagedInv, LeaseConfig, ClocksTyped, Managed!Swallow, Managed!rowVars,
         Managed!hbVars
    <2>4. BeatsUntilCompleted'
      BY <1>9 DEF ManagedInv, StagesTyped, FlagsTyped, RowTyped, BeatsUntilCompleted, Beating,
         Managed!Swallow, Managed!rowVars, Managed!hbVars
    <2>5. CancelRemembered'
      BY <1>9 DEF ManagedInv, StagesTyped, FlagsTyped, RowTyped, BeatsUntilCompleted,
         CancelRemembered, Shielded, Beating, Managed!Swallow, Managed!rowVars, Managed!hbVars
    <2>6. StoredAsSaid'
      BY <1>9 DEF ManagedInv, StagesTyped, FlagsTyped, StoredAsSaid, Managed!Swallow,
         Managed!rowVars, Managed!hbVars
    <2> QED BY <2>1, <2>2, <2>3, <2>4, <2>5, <2>6, <2>7 DEF ManagedInv
  <1>a. CASE Managed(c)!HeartbeatStopped
    <2>1. StagesTyped'
      BY <1>a DEF ManagedInv, StagesTyped, Managed!HeartbeatStopped, Managed!InnerDone,
         Managed!HbAlive, Managed!rowVars, Managed!hbVars
    <2>7. FlagsTyped'
      BY <1>a DEF ManagedInv, FlagsTyped, Managed!HeartbeatStopped, Managed!InnerDone,
         Managed!HbAlive, Managed!rowVars, Managed!hbVars
    <2>2. RowTyped'
      BY <1>a DEF ManagedInv, RowTyped, StagesTyped, FlagsTyped, Managed!HeartbeatStopped,
         Managed!InnerDone, Managed!HbAlive, Managed!rowVars, Managed!hbVars
    <2>3. ClocksTyped(c)'
      BY <1>a DEF ManagedInv, LeaseConfig, ClocksTyped, Managed!HeartbeatStopped, Managed!InnerDone,
         Managed!HbAlive, Managed!rowVars, Managed!hbVars
    <2>4. BeatsUntilCompleted'
      BY <1>a DEF ManagedInv, StagesTyped, FlagsTyped, RowTyped, BeatsUntilCompleted, Beating,
         Managed!HeartbeatStopped, Managed!InnerDone, Managed!HbAlive, Managed!rowVars,
         Managed!hbVars
    <2>5. CancelRemembered'
      BY <1>a DEF ManagedInv, StagesTyped, FlagsTyped, RowTyped, BeatsUntilCompleted,
         CancelRemembered, Shielded, Beating, Managed!HeartbeatStopped, Managed!InnerDone,
         Managed!HbAlive, Managed!rowVars, Managed!hbVars
    <2>6. StoredAsSaid'
      BY <1>a DEF ManagedInv, StagesTyped, FlagsTyped, StoredAsSaid, Managed!HeartbeatStopped,
         Managed!InnerDone, Managed!HbAlive, Managed!rowVars, Managed!hbVars
    <2> QED BY <2>1, <2>2, <2>3, <2>4, <2>5, <2>6, <2>7 DEF ManagedInv
  <1>b. CASE Managed(c)!CompleteReturns
    <2>1. StagesTyped'
      BY <1>b DEF ManagedInv, StagesTyped, Managed!CompleteReturns, Managed!InnerDone,
         Managed!HbAlive, Managed!rowVars, Managed!hbVars
    <2>7. FlagsTyped'
      <3>1. hbPending' = FALSE /\ pend' = FALSE /\ UNCHANGED runnerHit
        BY <1>b DEF Managed!CompleteReturns
      <3>2. completed' = (inner \in {"ok", "cancelWon"}) /\ cancelReq' = (cancelReq \/ inner = "cancelWon")
        BY <1>b DEF Managed!CompleteReturns
      <3>3. completed' \in BOOLEAN /\ cancelReq' \in BOOLEAN
        BY <3>2
      <3> QED BY <3>1, <3>3 DEF ManagedInv, FlagsTyped
    <2>2. RowTyped'
      BY <1>b DEF ManagedInv, RowTyped, StagesTyped, FlagsTyped, Managed!CompleteReturns,
         Managed!InnerDone, Managed!HbAlive, Managed!rowVars, Managed!hbVars
    <2>3. ClocksTyped(c)'
      BY <1>b DEF ManagedInv, LeaseConfig, ClocksTyped, Managed!CompleteReturns, Managed!InnerDone,
         Managed!HbAlive, Managed!rowVars, Managed!hbVars
    <2>4. BeatsUntilCompleted'
      BY <1>b DEF ManagedInv, StagesTyped, FlagsTyped, RowTyped, BeatsUntilCompleted, Beating,
         Managed!CompleteReturns, Managed!InnerDone, Managed!HbAlive, Managed!rowVars,
         Managed!hbVars
    <2>5. CancelRemembered'
      BY <1>b DEF ManagedInv, StagesTyped, FlagsTyped, RowTyped, BeatsUntilCompleted,
         CancelRemembered, Shielded, Beating, Managed!CompleteReturns, Managed!InnerDone,
         Managed!HbAlive, Managed!rowVars, Managed!hbVars
    <2>6. StoredAsSaid'
      BY <1>b DEF ManagedInv, StagesTyped, FlagsTyped, StoredAsSaid, Managed!CompleteReturns,
         Managed!InnerDone, Managed!HbAlive, Managed!rowVars, Managed!hbVars
    <2> QED BY <2>1, <2>2, <2>3, <2>4, <2>5, <2>6, <2>7 DEF ManagedInv
  <1> QED BY <1>1, <1>2, <1>3, <1>4, <1>5, <1>6, <1>7, <1>8, <1>9, <1>a, <1>b DEF Managed!OwnerStep

(* Every step of a delivery, of its heartbeat and of the backend keeps it. *)
LEMMA ManagedKept ==
  ASSUME NEW c, LeaseConfig(c), ManagedInv(c), [Managed(c)!Next]_(Managed(c)!vars)
  PROVE  ManagedInv(c)'
  <1>1. CASE Managed(c)!Ended \/ UNCHANGED Managed(c)!vars
    <2>1. UNCHANGED <<row, mine, lease, seen, stage, want, inner, pend, hbPending, cancelReq,
                      completed, hb, stop, runnerHit, cut>>
      BY <1>1 DEF Managed!Ended, Managed!vars, Managed!rowVars, Managed!hbVars
    <2> QED BY <2>1 DEF ManagedInv, StagesTyped, FlagsTyped, RowTyped, ClocksTyped, BeatsUntilCompleted,
                        CancelRemembered, StoredAsSaid, Shielded, Beating
  <1> QED BY <1>1, OthersStep, HeartbeatKeeps, BodyKeeps, OwnerKeeps DEF Managed!Next

(* What the invariant says of a delivery. *)
LEMMA ManagedImplies ==
  ASSUME NEW c, ManagedInv(c)
  PROVE  Managed(c)!TypeOK /\ Managed(c)!NoZombieHeartbeat
  <1>1. Managed(c)!NoZombieHeartbeat
    BY DEF ManagedInv, BeatsUntilCompleted, Beating, Managed!NoZombieHeartbeat, Managed!HbAlive
  <1>2. {mine, pend, hbPending, cancelReq, completed, stop, runnerHit} \subseteq BOOLEAN
    BY DEF ManagedInv, FlagsTyped, RowTyped
  <1>3. stage \in Managed(c)!Stages /\ want \in Managed(c)!Completions /\ row \in Managed(c)!Statuses
        /\ hb \in Managed(c)!HbAlive \cup {"off", "done"}
    BY DEF ManagedInv, StagesTyped, RowTyped, Managed!Stages, Managed!Completions, Managed!Statuses,
           Managed!HbAlive
  <1>4. Managed(c)!TypeOK
    BY <1>2, <1>3 DEF ManagedInv, StagesTyped, ClocksTyped, Managed!TypeOK
  <1> QED BY <1>1, <1>4

(* What a step of the delivery keeps. *)
LEMMA ManagedPromises ==
  ASSUME NEW c, ManagedInv(c), [Managed(c)!Next]_(Managed(c)!vars)
  PROVE  Managed(c)!CancellationIsShielded /\ Managed(c)!CompletedIsStored
  <1>1. cut' # cut => cut' # "critical" \/ Managed(c)!Abort
    BY DEF Managed!Next, Managed!vars, Managed!Tick, Managed!RequestCancel, Managed!Reclaim,
       Managed!RunnerCancel, Managed!ReleaseUnstarted, Managed!StartProcessing, Managed!BodySucceeds,
       Managed!BodyFails, Managed!OwnerStep, Managed!HeartbeatStep, Managed!Ended,
       Managed!FailureHandled, Managed!CancelHandled, Managed!Cancelled, Managed!Raised,
       Managed!Closed, Managed!StopHeartbeat, Managed!BackendComplete, Managed!BackendCompleteFails,
       Managed!Swallow, Managed!HeartbeatStopped, Managed!CompleteReturns, Managed!HbWake,
       Managed!HbResult, Managed!HbStale, Managed!HbError, Managed!HbDies
  <1>2. completed' # completed => Managed(c)!CompleteReturns
    BY DEF Managed!Next, Managed!vars, Managed!Tick, Managed!RequestCancel, Managed!Reclaim,
       Managed!RunnerCancel, Managed!ReleaseUnstarted, Managed!StartProcessing, Managed!BodySucceeds,
       Managed!BodyFails, Managed!OwnerStep, Managed!HeartbeatStep, Managed!Ended,
       Managed!FailureHandled, Managed!CancelHandled, Managed!Cancelled, Managed!Closed,
       Managed!StopHeartbeat, Managed!BackendComplete, Managed!BackendCompleteFails,
       Managed!Abort, Managed!Swallow, Managed!HeartbeatStopped, Managed!HbWake,
       Managed!HbResult, Managed!HbStale, Managed!HbError, Managed!HbDies
  <1>3. Managed(c)!Abort => want # "cancelled"
    BY DEF ManagedInv, BeatsUntilCompleted, CancelRemembered, Shielded, Managed!Abort, Managed!MayAbort
  <1>4. Managed(c)!CompleteReturns /\ completed' => ~mine /\ row \in {want, "cancelled"}
    <2> SUFFICES ASSUME Managed(c)!CompleteReturns, completed'
                 PROVE  ~mine /\ row \in {want, "cancelled"}
      OBVIOUS
    <2>1. stage = "complete" /\ completed' = (inner \in {"ok", "cancelWon"})
      BY DEF Managed!CompleteReturns
    <2>2. inner \in {"ok", "cancelWon"}
      BY <2>1, Zenon
    <2> QED BY <2>1, <2>2 DEF ManagedInv, StoredAsSaid
  <1>5. Managed(c)!CancellationIsShielded
    BY <1>1, <1>3 DEF Managed!CancellationIsShielded
  <1>6. Managed(c)!CompletedIsStored
    <2>1. completed' = completed => (completed' <=> completed)
      OBVIOUS
    <2> QED BY <1>2, <1>4, <2>1, Zenon DEF Managed!CompletedIsStored
  <1> QED BY <1>5, <1>6

\* For every lease duration: a heartbeat outlives the execute() of its delivery only when
\* a cancellation ended that outside its own handling of cancellations, so no other path
\* leaves a lease renewed for nobody.
THEOREM HeartbeatEndsWithItsDelivery ==
  ASSUME NEW c, LeaseConfig(c)
  PROVE  Managed(c)!Spec => [](Managed(c)!TypeOK /\ Managed(c)!NoZombieHeartbeat)
  <1>1. Managed(c)!Init => ManagedInv(c)
    BY ManagedInit
  <1>2. ManagedInv(c) /\ [Managed(c)!Next]_(Managed(c)!vars) => ManagedInv(c)'
    BY ManagedKept
  <1>3. ManagedInv(c) => Managed(c)!TypeOK /\ Managed(c)!NoZombieHeartbeat
    BY ManagedImplies
  <1> QED BY <1>1, <1>2, <1>3, PTL DEF Managed!Spec

\* For every lease duration: the CANCELLED completion the heartbeat asked for is not given
\* up for a shutdown, and a completion that is reported is stored.
THEOREM CompletionsKept ==
  ASSUME NEW c, LeaseConfig(c)
  PROVE  Managed(c)!Spec =>
           [][Managed(c)!CancellationIsShielded /\ Managed(c)!CompletedIsStored]_(Managed(c)!vars)
  <1>1. Managed(c)!Init => ManagedInv(c)
    BY ManagedInit
  <1>2. ManagedInv(c) /\ [Managed(c)!Next]_(Managed(c)!vars) => ManagedInv(c)'
    BY ManagedKept
  <1>3. ManagedInv(c) /\ [Managed(c)!Next]_(Managed(c)!vars)
          => [Managed(c)!CancellationIsShielded /\ Managed(c)!CompletedIsStored]_(Managed(c)!vars)
    BY ManagedPromises
  <1> QED BY <1>1, <1>2, <1>3, PTL DEF Managed!Spec

--------------------------------------------------------------------------------
(* A configuration of the dead letters: only a queue that leases what it hands *)
(* out survives a command that is cancelled.                                   *)
DeadConfig(c) ==
  /\ IsFiniteSet(c.Msgs) /\ c.Limit \in Nat /\ c.Attempts \in Nat
  /\ ~c.Leased => c.MaxCancels = 0

(* The messages of the source and of the dead-letter queue; what has a payload *)
(* was put there by the task.                                                  *)
SourceMessages(c) == [m : c.Msgs, att : 0..c.Attempts]
DeadMessages(c) ==
  {l \in [m : c.Msgs \cup {"alien"}, att : 0..c.Attempts, ok : BOOLEAN] : l.ok => l.m \in c.Msgs}
(* A delivery in the hand of a command. *)
InHands(c) == [e : DeadMessages(c), held : BOOLEAN]
(* The states of a command. *)
CommandStates(c) ==
  [pc : {"new", "next", "ack", "complete", "partial", "failed", "cancelled"},
   op : {"replay", "discard", "none"}, hand : Seq(InHands(c)),
   attempted : Nat, done : Nat, failed : Nat, att : Nat]

(* The types of the queues, of the commands and of the counts. *)
QueuesTyped(c) ==
  main \in Seq(SourceMessages(c)) /\ dead \in Seq(DeadMessages(c)) /\ limbo \in Seq(DeadMessages(c))
CommandsTyped(c) ==
  /\ cmd \in [c.Commands -> CommandStates(c)]
  /\ \A k \in c.Commands : /\ cmd[k].attempted + Len(cmd[k].hand) <= c.Limit
                           /\ cmd[k].pc = "new" => cmd[k].hand = <<>>
CountsTyped(c) ==
  handled \subseteq c.Msgs /\ discarded \subseteq c.Msgs \cup {"alien"} /\ cancels \in Nat

(* A command that has replayed a message and not acknowledged it yet has its   *)
(* dead letter for nothing: the acknowledgement will take it away.             *)
Among(m, s) == \E i \in DOMAIN s : s[i].m = m
Carried(m, rec) ==
  \E i \in DOMAIN rec.hand :
    rec.hand[i].held /\ rec.hand[i].e.m = m /\ ~(i = 1 /\ rec.pc = "ack")
Backed(c, m) ==
  \/ Among(m, main) \/ Among(m, dead) \/ Among(m, limbo)
  \/ \E k \in c.Commands : Carried(m, cmd[k])
  \/ m \in handled \cup discarded

(* The inductive invariant of the dead letters. *)
DeadInv(c) ==
  QueuesTyped(c) /\ CommandsTyped(c) /\ CountsTyped(c) /\ \A m \in c.Msgs : Backed(c, m)
--------------------------------------------------------------------------------
(* Sequences of messages. *)
LEMMA AppendAmong ==
  ASSUME NEW S, NEW s \in Seq(S), NEW x \in S
  PROVE  /\ Append(s, x) \in Seq(S)
         /\ \A m : Among(m, s) => Among(m, Append(s, x))
         /\ Among(x.m, Append(s, x))
  <1>1. Append(s, x) \in Seq(S) /\ Len(Append(s, x)) = Len(s) + 1
    OBVIOUS
  <1>2. \A i \in DOMAIN s : i \in DOMAIN Append(s, x) /\ Append(s, x)[i] = s[i]
    OBVIOUS
  <1>3. Len(s) + 1 \in DOMAIN Append(s, x) /\ Append(s, x)[Len(s) + 1] = x
    OBVIOUS
  <1> QED BY <1>1, <1>2, <1>3 DEF Among

(* What is behind the head of a sequence stays in its tail. *)
LEMMA TailAmong ==
  ASSUME NEW S, NEW s \in Seq(S), s # <<>>
  PROVE  /\ Tail(s) \in Seq(S) /\ Head(s) \in S /\ Len(Tail(s)) = Len(s) - 1
         /\ \A m : Among(m, s) => m = Head(s).m \/ Among(m, Tail(s))
  <1>1. Tail(s) \in Seq(S) /\ Head(s) \in S /\ Head(s) = s[1] /\ Len(Tail(s)) = Len(s) - 1
    OBVIOUS
  <1>2. \A i \in DOMAIN s : i = 1 \/ (i - 1 \in DOMAIN Tail(s) /\ Tail(s)[i - 1] = s[i])
    OBVIOUS
  <1> QED BY <1>1, <1>2 DEF Among

(* Every element of a set is in every order of its elements. *)
LEMMA OrdersCover ==
  ASSUME NEW c, NEW S, NEW q \in Dead(c)!Orders(S)
  PROVE  /\ q \in [1..Dead(c)!Cardinality(S) -> S]
         /\ \A x \in S : \E i \in 1..Dead(c)!Cardinality(S) : q[i] = x
  BY DEF Dead!Orders, Dead!Bijection, Dead!Injection, Dead!Surjection

(* The cardinality of a finite set is a number. *)
LEMMA DeadCardinality ==
  ASSUME NEW c, NEW S, IsFiniteSet(S)
  PROVE  Dead(c)!Cardinality(S) = Cardinality(S) /\ Cardinality(S) \in Nat
  <1>1. Dead(c)!Cardinality(S) = Cardinality(S)
    BY DEF Dead!Cardinality, Cardinality
  <1> QED BY <1>1, FS_CardinalityType

(* Every message is in the source to begin with. *)
LEMMA DeadInit ==
  ASSUME NEW c, DeadConfig(c), Dead(c)!Init
  PROVE  DeadInv(c)
  <1> DEFINE n == Dead(c)!Cardinality(c.Msgs)
  <1>1. n \in Nat
    BY DeadCardinality DEF DeadConfig
  <1>2. PICK s \in Dead(c)!Orders(c.Msgs) : main = [i \in 1..n |-> [m |-> s[i], att |-> 0]]
    BY DEF Dead!Init
  <1>3. s \in [1..n -> c.Msgs] /\ \A m \in c.Msgs : \E i \in 1..n : s[i] = m
    BY OrdersCover
  <1> HIDE DEF n
  <1>4. main \in Seq(SourceMessages(c)) /\ \A m \in c.Msgs : Among(m, main)
    <2>1. \A i \in 1..n : [m |-> s[i], att |-> 0] \in SourceMessages(c)
      BY <1>3 DEF SourceMessages, DeadConfig
    <2>2. main \in [1..n -> SourceMessages(c)]
      BY <1>2, <2>1
    <2>3. main \in Seq(SourceMessages(c))
      BY <1>1, <2>2
    <2>4. \A i \in 1..n : i \in DOMAIN main /\ main[i].m = s[i]
      BY <1>2
    <2> QED BY <1>3, <2>3, <2>4 DEF Among
  <1>5. dead \in Seq(DeadMessages(c))
    <2>1. [m |-> "alien", att |-> 0, ok |-> FALSE] \in DeadMessages(c)
      <3>1. 0 \in 0..c.Attempts
        BY DEF DeadConfig
      <3> QED BY <3>1, Zenon DEF DeadMessages
    <2> QED BY <2>1 DEF Dead!Init
  <1>6. limbo \in Seq(DeadMessages(c))
    BY DEF Dead!Init
  <1>7. CommandsTyped(c)
    <2>1. /\ Dead(c)!Idle \in CommandStates(c) /\ Dead(c)!Idle.hand = <<>>
          /\ Dead(c)!Idle.attempted + Len(Dead(c)!Idle.hand) = 0
      BY DEF Dead!Idle, CommandStates
    <2> QED BY <2>1 DEF CommandsTyped, Dead!Init, DeadConfig
  <1>8. CountsTyped(c)
    BY DEF CountsTyped, Dead!Init
  <1> QED BY <1>4, <1>5, <1>6, <1>7, <1>8 DEF DeadInv, QueuesTyped, Backed

(* The task takes a message off its source. *)
LEMMA TaskKeeps ==
  ASSUME NEW c, DeadConfig(c), DeadInv(c), Dead(c)!Succeeds \/ Dead(c)!Fails \/ Dead(c)!PublishFails
  PROVE  DeadInv(c)'
  <1> DEFINE e == Head(main)
  <1>1. main # <<>> /\ main \in Seq(SourceMessages(c)) /\ dead \in Seq(DeadMessages(c))
    BY DEF DeadInv, QueuesTyped, Dead!Succeeds, Dead!Fails, Dead!PublishFails
  <1>2. /\ Tail(main) \in Seq(SourceMessages(c)) /\ e \in SourceMessages(c)
        /\ \A m : Among(m, main) => m = e.m \/ Among(m, Tail(main))
    BY <1>1, TailAmong
  <1>3. UNCHANGED <<limbo, cmd, discarded, cancels>>
    BY DEF Dead!Succeeds, Dead!Fails, Dead!PublishFails, Dead!ghosts, Dead!bounds
  <1>4. CASE Dead(c)!Succeeds
    <2>1. main' = Tail(main) /\ handled' = handled \cup {e.m} /\ dead' = dead
      BY <1>4 DEF Dead!Succeeds
    <2>2. e.m \in c.Msgs
      BY <1>2 DEF SourceMessages
    <2>3. \A m \in c.Msgs : Backed(c, m)'
      BY <1>2, <1>3, <2>1 DEF DeadInv, Backed
    <2> QED BY <1>2, <1>3, <2>1, <2>2, <2>3 DEF DeadInv, QueuesTyped, CommandsTyped, CountsTyped
  <1>5. ASSUME NEW x \in SourceMessages(c), x.m = e.m, main' = Append(Tail(main), x), UNCHANGED <<dead, handled>>
        PROVE  DeadInv(c)'
    <2>1. main' \in Seq(SourceMessages(c)) /\ \A m : Among(m, main) => Among(m, main')
      BY <1>2, <1>5, AppendAmong
    <2>2. \A m \in c.Msgs : Backed(c, m)'
      BY <1>3, <1>5, <2>1 DEF DeadInv, Backed
    <2> QED BY <1>3, <1>5, <2>1, <2>2 DEF DeadInv, QueuesTyped, CommandsTyped, CountsTyped
  <1>6. CASE Dead(c)!Fails
    <2>1. CASE ~Dead(c)!Exhausted(e)
      <3> DEFINE x == Dead(c)!Retried(e)
      <3>1. main' = Append(Tail(main), x) /\ UNCHANGED <<dead, handled>>
        BY <1>6, <2>1 DEF Dead!Fails
      <3>2. e.m \in c.Msgs /\ e.att \in Nat /\ e.att + 1 <= c.Attempts
        BY <1>2, <2>1 DEF SourceMessages, Dead!Exhausted, DeadConfig
      <3>3. x \in SourceMessages(c) /\ x.m = e.m
        BY <1>2, <3>2 DEF SourceMessages, Dead!Retried, DeadConfig
      <3> QED BY <1>5, <3>1, <3>3
    <2>2. CASE Dead(c)!Exhausted(e)
      <3> DEFINE l == [m |-> e.m, att |-> e.att, ok |-> TRUE]
      <3>1. main' = Tail(main) /\ dead' = Append(dead, l) /\ handled' = handled
        BY <1>6, <2>2 DEF Dead!Fails
      <3>2. l \in DeadMessages(c) /\ l.m = e.m
        <4>1. e.m \in c.Msgs /\ e.att \in 0..c.Attempts
          BY <1>2 DEF SourceMessages
        <4> QED BY <4>1, Zenon DEF DeadMessages
      <3> HIDE DEF l
      <3>3. /\ dead' \in Seq(DeadMessages(c)) /\ \A m : Among(m, dead) => Among(m, dead')
            /\ Among(l.m, dead')
        BY <1>1, <3>1, <3>2, AppendAmong
      <3>4. \A m \in c.Msgs : Backed(c, m)'
        BY <1>2, <1>3, <3>1, <3>2, <3>3 DEF DeadInv, Backed
      <3> QED BY <1>2, <1>3, <3>1, <3>3, <3>4 DEF DeadInv, QueuesTyped, CommandsTyped, CountsTyped
    <2> QED BY <2>1, <2>2
  <1>7. CASE Dead(c)!PublishFails
    <2> DEFINE x == [e EXCEPT !.att = c.Attempts]
    <2>1. main' = Append(Tail(main), x) /\ UNCHANGED <<dead, handled>>
      BY <1>7 DEF Dead!PublishFails, Dead!ghosts
    <2>2. x \in SourceMessages(c) /\ x.m = e.m
      BY <1>2 DEF SourceMessages, DeadConfig
    <2> QED BY <1>5, <2>1, <2>2
  <1> QED BY <1>4, <1>6, <1>7

--------------------------------------------------------------------------------
(* A command settles the delivery it is at. *)
LEMMA NextOneIs ==
  ASSUME NEW c, CommandsTyped(c), NEW k \in c.Commands, cmd[k].hand # <<>>,
         NEW count, Dead(c)!NextOne(k, count)
  PROVE  /\ cmd' \in [c.Commands -> CommandStates(c)]
         /\ cmd'[k].hand = Tail(cmd[k].hand) /\ cmd'[k].pc = "next"
         /\ cmd'[k].attempted = cmd[k].attempted + 1
         /\ cmd'[k].done = IF count = "done" THEN cmd[k].done + 1 ELSE cmd[k].done
         /\ \A q \in c.Commands : q # k => cmd'[q] = cmd[q]
  <1> DEFINE old == cmd[k]
             tl == Tail(old.hand)
             dn == IF count = "done" THEN old.done + 1 ELSE old.done
             fd == IF count = "failed" THEN old.failed + 1 ELSE old.failed
             at == old.attempted + 1
             new == [old EXCEPT !.hand = tl, !.pc = "next", !.attempted = at,
                                !.done = dn, !.failed = fd]
  <1>1. old \in CommandStates(c)
    BY DEF CommandsTyped
  <1>2. cmd' = [cmd EXCEPT ![k] = new]
    BY <1>1 DEF Dead!NextOne, CommandsTyped, CommandStates
  <1>3. tl \in Seq(InHands(c)) /\ dn \in Nat /\ fd \in Nat /\ at \in Nat
    BY <1>1, TailAmong DEF CommandStates
  <1> HIDE DEF old, tl, dn, fd, at
  <1>4. new \in CommandStates(c)
    BY <1>1, <1>3 DEF CommandStates
  <1>5. new.hand = tl /\ new.pc = "next" /\ new.attempted = at /\ new.done = dn
    BY <1>1 DEF CommandStates
  <1> HIDE DEF new
  <1> QED BY <1>2, <1>4, <1>5 DEF CommandsTyped, old, tl, at, dn

(* What it had in hand beyond that delivery it still has. *)
LEMMA TailCarries ==
  ASSUME NEW c, NEW rec \in CommandStates(c), NEW new \in CommandStates(c), rec.hand # <<>>,
         new.hand = Tail(rec.hand), new.pc # "ack", NEW m, Carried(m, rec)
  PROVE  \/ Carried(m, new)
         \/ rec.pc # "ack" /\ Head(rec.hand).held /\ Head(rec.hand).e.m = m
  <1> DEFINE h == rec.hand
  <1>0. h \in Seq(InHands(c))
    BY DEF CommandStates
  <1>1. PICK i \in DOMAIN h : h[i].held /\ h[i].e.m = m /\ ~(i = 1 /\ rec.pc = "ack")
    BY DEF Carried
  <1>2. Head(h) = h[1]
    BY <1>0
  <1>3. i = 1 \/ (i - 1 \in DOMAIN Tail(h) /\ Tail(h)[i - 1] = h[i])
    BY <1>0
  <1> QED BY <1>1, <1>2, <1>3 DEF Carried

(* A delivery is settled and what it stood for is elsewhere. *)
LEMMA Settles ==
  ASSUME NEW c, DeadConfig(c), DeadInv(c), NEW k \in c.Commands, cmd[k].hand # <<>>,
         NEW count, Dead(c)!NextOne(k, count), UNCHANGED <<main, handled, cancels>>,
         dead' \in Seq(DeadMessages(c)), limbo' \in Seq(DeadMessages(c)),
         discarded \subseteq discarded', discarded' \subseteq c.Msgs \cup {"alien"},
         \A m : /\ Among(m, dead) => Among(m, dead')
                /\ Among(m, limbo) => Among(m, limbo'),
         LET d == Head(cmd[k].hand) IN
           d.held /\ cmd[k].pc # "ack" =>
             Among(d.e.m, dead') \/ Among(d.e.m, limbo') \/ d.e.m \in discarded'
  PROVE  DeadInv(c)'
  <1>1. CommandsTyped(c) /\ cmd[k] \in CommandStates(c)
    BY DEF DeadInv, CommandsTyped
  <1>2. cmd[k].hand \in Seq(InHands(c)) /\ cmd[k].attempted \in Nat
    BY <1>1 DEF CommandStates
  <1>3. /\ cmd' \in [c.Commands -> CommandStates(c)]
        /\ cmd'[k].hand = Tail(cmd[k].hand) /\ cmd'[k].pc = "next"
        /\ cmd'[k].attempted = cmd[k].attempted + 1
        /\ \A q \in c.Commands : q # k => cmd'[q] = cmd[q]
    BY <1>1, NextOneIs
  <1>4. Len(Tail(cmd[k].hand)) = Len(cmd[k].hand) - 1
    BY <1>2, TailAmong
  <1>5. cmd'[k].attempted + Len(cmd'[k].hand) <= c.Limit
    BY <1>1, <1>2, <1>3, <1>4 DEF CommandsTyped, DeadConfig
  <1>6. CommandsTyped(c)'
    BY <1>1, <1>3, <1>5 DEF CommandsTyped
  <1>7. ASSUME NEW m \in c.Msgs
        PROVE  Backed(c, m)'
    <2>1. CASE Carried(m, cmd[k])
      <3>1. Carried(m, cmd'[k]) \/ (cmd[k].pc # "ack" /\ Head(cmd[k].hand).held /\ Head(cmd[k].hand).e.m = m)
        BY <1>1, <1>3, <2>1, TailCarries
      <3> QED BY <3>1 DEF Backed
    <2>2. CASE ~Carried(m, cmd[k])
      BY <1>3, <1>7, <2>2 DEF DeadInv, Backed
    <2> QED BY <2>1, <2>2
  <1> QED BY <1>6, <1>7 DEF DeadInv, QueuesTyped, CountsTyped

(* A step of a command loses no message. *)
LEMMA StepKeeps ==
  ASSUME NEW c, DeadConfig(c), DeadInv(c), NEW k \in c.Commands, Dead(c)!Step(k)
  PROVE  DeadInv(c)'
  <1> DEFINE d == Head(cmd[k].hand)
  <1>1. /\ cmd[k] \in CommandStates(c) /\ cmd[k].hand \in Seq(InHands(c))
        /\ main \in Seq(SourceMessages(c)) /\ dead \in Seq(DeadMessages(c)) /\ limbo \in Seq(DeadMessages(c))
        /\ discarded \subseteq c.Msgs \cup {"alien"}
    BY DEF DeadInv, CommandsTyped, CommandStates, QueuesTyped, CountsTyped
  <1>2. cmd[k].hand # <<>> => d.e \in DeadMessages(c) /\ d.held \in BOOLEAN
    <2> SUFFICES ASSUME cmd[k].hand # <<>>
                 PROVE  d.e \in DeadMessages(c) /\ d.held \in BOOLEAN
      OBVIOUS
    <2>1. d \in InHands(c)
      BY <1>1, TailAmong
    <2> HIDE DEF d
    <2> QED BY <2>1 DEF InHands
  <1>3. cmd[k].hand # <<>> => /\ \A q \in Seq(DeadMessages(c)) : /\ Append(q, d.e) \in Seq(DeadMessages(c))
                                                                /\ Among(d.e.m, Append(q, d.e))
                              /\ \A m : Among(m, dead) => Among(m, Append(dead, d.e))
                              /\ \A m : Among(m, limbo) => Among(m, Append(limbo, d.e))
    BY <1>1, <1>2, AppendAmong
  <1>4. ASSUME Dead(c)!At(k, "next"), NEW count, Dead(c)!NextOne(k, count), Dead(c)!GiveBack(k),
               UNCHANGED <<main, limbo, handled, discarded, cancels>>
        PROVE  DeadInv(c)'
    <2>1. cmd[k].hand # <<>> /\ IF d.held THEN dead' = Append(dead, d.e) ELSE dead' = dead
      BY <1>4 DEF Dead!At, Dead!GiveBack, Dead!Cur
    <2> HIDE DEF d
    <2>2. /\ dead' \in Seq(DeadMessages(c)) /\ \A m : Among(m, dead) => Among(m, dead')
          /\ d.held => Among(d.e.m, dead')
      BY <1>1, <1>3, <2>1
    <2> QED BY <1>1, <1>4, <2>1, <2>2, Settles DEF d
  <1>5. CASE Dead(c)!Invalid(k)
    <2>1. CASE Dead(c)!GiveBack(k) /\ UNCHANGED <<limbo, faults>>
      BY <1>4, <1>5, <2>1 DEF Dead!Invalid, Dead!ghosts
    <2>2. CASE Dead(c)!RetryFails(k)
      <3>1. /\ cmd[k].hand # <<>> /\ dead' = dead /\ limbo' = (IF d.held THEN Append(limbo, d.e) ELSE limbo)
            /\ Dead(c)!NextOne(k, "failed") /\ UNCHANGED <<main, handled, discarded, cancels>>
        BY <1>5, <2>2 DEF Dead!Invalid, Dead!RetryFails, Dead!At, Dead!Cur, Dead!ghosts
      <3> HIDE DEF d
      <3>2. /\ limbo' \in Seq(DeadMessages(c)) /\ \A m : Among(m, limbo) => Among(m, limbo')
            /\ d.held => Among(d.e.m, limbo')
        BY <1>1, <1>3, <3>1
      <3> QED BY <1>1, <3>1, <3>2, Settles DEF d
    <2> QED BY <1>5, <2>1, <2>2 DEF Dead!Invalid
  <1>6. CASE Dead(c)!SendFails(k)
    BY <1>4, <1>6 DEF Dead!SendFails, Dead!ghosts
  <1>7. CASE Dead(c)!Ack(k)
    <2>1. /\ cmd[k].hand # <<>> /\ Dead(c)!NextOne(k, "done")
          /\ cmd[k].pc # "ack" => cmd[k].op = "discard"
          /\ UNCHANGED <<main, dead, limbo, handled, cancels>>
          /\ discarded' = IF cmd[k].op = "discard" THEN discarded \cup {d.e.m} ELSE discarded
      BY <1>7 DEF Dead!Ack, Dead!CanAck, Dead!At, Dead!Cur, Dead!queues, Dead!bounds
    <2> HIDE DEF d
    <2>2. d.e.m \in c.Msgs \cup {"alien"}
      BY <1>2, <2>1 DEF DeadMessages
    <2>3. /\ discarded \subseteq discarded' /\ discarded' \subseteq c.Msgs \cup {"alien"}
          /\ cmd[k].pc # "ack" => d.e.m \in discarded'
      BY <1>1, <2>1, <2>2
    <2> QED BY <1>1, <2>1, <2>3, Settles DEF d
  <1>8. CASE Dead(c)!AckFails(k)
    <2>1. /\ cmd[k].hand # <<>> /\ Dead(c)!NextOne(k, "failed")
          /\ UNCHANGED <<main, dead, handled, discarded, cancels>>
          /\ (~d.held /\ limbo' = limbo) \/ (d.held /\ limbo' = Append(limbo, d.e))
      BY <1>8 DEF Dead!AckFails, Dead!CanAck, Dead!At, Dead!Cur, Dead!ghosts
    <2> HIDE DEF d
    <2>2. /\ limbo' \in Seq(DeadMessages(c)) /\ \A m : Among(m, limbo) => Among(m, limbo')
          /\ d.held => Among(d.e.m, limbo')
      BY <1>1, <1>3, <2>1
    <2> QED BY <1>1, <2>1, <2>2, Settles DEF d
  <1>9. CASE Dead(c)!Send(k)
    <2>1. /\ cmd[k].hand # <<>> /\ cmd[k].pc = "next" /\ d.e.ok
          /\ main' = Append(main, Dead(c)!ReplayEnvelope(d.e)) /\ cmd' = [cmd EXCEPT ![k].pc = "ack"]
          /\ UNCHANGED <<dead, limbo, handled, discarded, cancels>>
      BY <1>9 DEF Dead!Send, Dead!At, Dead!Cur, Dead!bounds
    <2>2. Dead(c)!ReplayEnvelope(d.e) \in SourceMessages(c) /\ Dead(c)!ReplayEnvelope(d.e).m = d.e.m
      <3> HIDE DEF d
      <3> QED BY <1>2, <2>1 DEF DeadMessages, SourceMessages, Dead!ReplayEnvelope
    <2>3. /\ main' \in Seq(SourceMessages(c)) /\ \A m : Among(m, main) => Among(m, main')
          /\ Among(d.e.m, main')
      BY <1>1, <2>1, <2>2, AppendAmong
    <2>4. /\ cmd' \in [c.Commands -> CommandStates(c)] /\ cmd'[k].hand = cmd[k].hand
          /\ cmd'[k].pc = "ack" /\ cmd'[k].attempted = cmd[k].attempted
          /\ \A q \in c.Commands : q # k => cmd'[q] = cmd[q]
      BY <2>1 DEF DeadInv, CommandsTyped, CommandStates
    <2>5. CommandsTyped(c)'
      BY <2>4 DEF DeadInv, CommandsTyped
    <2>6. \A m : Carried(m, cmd[k]) => m = d.e.m \/ Carried(m, cmd'[k])
      <3>1. d = cmd[k].hand[1]
        BY <1>1, <2>1
      <3> HIDE DEF d
      <3> QED BY <2>4, <3>1 DEF Carried
    <2>7. \A m \in c.Msgs : Backed(c, m)'
      BY <2>1, <2>3, <2>4, <2>6 DEF DeadInv, Backed
    <2> QED BY <2>1, <2>3, <2>5, <2>7 DEF DeadInv, QueuesTyped, CountsTyped
  <1>a. CASE Dead(c)!End(k)
    <2>1. /\ cmd[k].hand = <<>> /\ cmd' = [cmd EXCEPT ![k].pc = Dead(c)!Completion(k)]
          /\ UNCHANGED <<main, dead, limbo, handled, discarded, cancels>>
      BY <1>a DEF Dead!End, Dead!queues, Dead!ghosts, Dead!bounds
    <2>2. Dead(c)!Completion(k) \in {"complete", "partial", "failed"}
      BY DEF Dead!Completion
    <2>3. /\ cmd' \in [c.Commands -> CommandStates(c)] /\ cmd'[k].hand = <<>>
          /\ cmd'[k].attempted = cmd[k].attempted /\ cmd'[k].pc # "new"
          /\ \A q \in c.Commands : q # k => cmd'[q] = cmd[q]
      BY <2>1, <2>2 DEF DeadInv, CommandsTyped, CommandStates
    <2>4. CommandsTyped(c)'
      BY <2>1, <2>3 DEF DeadInv, CommandsTyped
    <2>5. \A m : ~Carried(m, cmd[k])
      BY <2>1 DEF Carried
    <2>6. \A m \in c.Msgs : Backed(c, m)'
      BY <2>1, <2>3, <2>5 DEF DeadInv, Backed
    <2> QED BY <2>1, <2>4, <2>6 DEF DeadInv, QueuesTyped, CountsTyped
  <1> QED BY <1>5, <1>6, <1>7, <1>8, <1>9, <1>a DEF Dead!Step

(* A command takes messages off the dead-letter queue into its hand. *)
LEMMA BeginKeeps ==
  ASSUME NEW c, DeadConfig(c), DeadInv(c), NEW k \in c.Commands, NEW op \in Dead(c)!Ops, Dead(c)!Begin(k, op)
  PROVE  DeadInv(c)'
  <1> DEFINE n == Dead(c)!Take(c.Limit)
             got == [i \in 1..n |-> [e |-> dead[i], held |-> TRUE]]
             new == [Dead(c)!Idle EXCEPT !.pc = "next", !.op = op, !.hand = got]
  <1>1. /\ cmd[k].pc = "new" /\ cmd' = [cmd EXCEPT ![k] = new]
        /\ dead' = SubSeq(dead, n + 1, Len(dead))
        /\ UNCHANGED <<main, limbo, handled, discarded, cancels>>
    BY DEF Dead!Begin, Dead!ghosts, Dead!bounds
  <1>2. dead \in Seq(DeadMessages(c)) /\ Len(dead) \in Nat
    BY DEF DeadInv, QueuesTyped
  <1>3. n \in Nat /\ n <= c.Limit /\ n <= Len(dead)
    BY <1>2 DEF Dead!Take, DeadConfig
  <1> HIDE DEF n
  <1>4. got \in Seq(InHands(c)) /\ Len(got) = n
    <2>1. \A i \in 1..n : dead[i] \in DeadMessages(c)
      BY <1>2, <1>3
    <2>2. \A i \in 1..n : [e |-> dead[i], held |-> TRUE] \in InHands(c)
      BY <2>1, Zenon DEF InHands
    <2>3. got \in [1..n -> InHands(c)]
      BY <2>2
    <2> QED BY <1>3, <2>3
  <1>5. dead' \in Seq(DeadMessages(c))
    BY <1>1, <1>2, <1>3
  <1>6. \A i \in DOMAIN dead : i \in 1..n \/ (i - n \in DOMAIN dead' /\ dead'[i - n] = dead[i])
    BY <1>1, <1>2, <1>3
  <1>7. DOMAIN got = 1..n /\ \A i \in 1..n : got[i].held /\ got[i].e = dead[i]
    OBVIOUS
  <1> HIDE DEF got
  <1>8. new \in CommandStates(c) /\ new.hand = got /\ new.pc = "next" /\ new.attempted = 0
    BY <1>4 DEF CommandStates, Dead!Idle, Dead!Ops
  <1> HIDE DEF new
  <1>9. /\ cmd' \in [c.Commands -> CommandStates(c)] /\ cmd'[k] = new
        /\ \A q \in c.Commands : q # k => cmd'[q] = cmd[q]
    BY <1>1, <1>8 DEF DeadInv, CommandsTyped
  <1>a. CommandsTyped(c)'
    BY <1>3, <1>4, <1>8, <1>9 DEF DeadInv, CommandsTyped
  <1>b. \A m : ~Carried(m, cmd[k])
    BY <1>1 DEF DeadInv, CommandsTyped, Carried
  <1>c. \A m : Among(m, dead) => Among(m, dead') \/ Carried(m, cmd'[k])
    <2> SUFFICES ASSUME NEW m, NEW i \in DOMAIN dead, dead[i].m = m
                 PROVE  Among(m, dead') \/ Carried(m, new)
      BY <1>9 DEF Among
    <2>1. CASE i \in 1..n
      <3>1. i \in DOMAIN new.hand /\ new.hand[i].held /\ new.hand[i].e.m = m /\ new.pc # "ack"
        BY <1>7, <1>8, <2>1
      <3> QED BY <3>1 DEF Carried
    <2>2. CASE i \notin 1..n
      BY <1>6, <2>2 DEF Among
    <2> QED BY <2>1, <2>2
  <1>d. \A m \in c.Msgs : Backed(c, m)'
    BY <1>1, <1>9, <1>b, <1>c DEF DeadInv, Backed
  <1> QED BY <1>1, <1>5, <1>a, <1>d DEF DeadInv, QueuesTyped, CountsTyped

(* The leases of a cancelled command hold what it had in hand. *)
LEMMA CancelKeeps ==
  ASSUME NEW c, DeadConfig(c), DeadInv(c), NEW k \in c.Commands, Dead(c)!Cancel(k)
  PROVE  DeadInv(c)'
  <1> DEFINE h == cmd[k].hand
             S == Dead(c)!Held(k)
             n == Dead(c)!Cardinality(S)
  <1>1. /\ cmd' = [cmd EXCEPT ![k].pc = "cancelled", ![k].hand = <<>>]
        /\ cancels < c.MaxCancels /\ cancels' = cancels + 1
        /\ UNCHANGED <<main, dead, handled, discarded>>
    BY DEF Dead!Cancel, Dead!ghosts
  <1>2. cancels \in Nat /\ limbo \in Seq(DeadMessages(c)) /\ cmd[k] \in CommandStates(c)
    BY DEF DeadInv, CountsTyped, QueuesTyped, CommandsTyped
  <1>3. c.Leased
    BY <1>1, <1>2 DEF DeadConfig
  <1>4. PICK q \in Dead(c)!Orders(S) : limbo' = limbo \o [i \in DOMAIN q |-> h[q[i]].e]
    BY <1>3 DEF Dead!Cancel
  <1>5. h \in Seq(InHands(c)) /\ S = {i \in DOMAIN h : h[i].held}
    BY <1>2 DEF CommandStates, Dead!Held
  <1>6. n \in Nat
    <2>1. IsFiniteSet(DOMAIN h)
      BY <1>5, FS_Interval
    <2>2. IsFiniteSet(S)
      BY <1>5, <2>1, FS_Subset
    <2> QED BY <2>2, DeadCardinality
  <1>7. q \in [1..n -> S] /\ \A x \in S : \E i \in 1..n : q[i] = x
    BY OrdersCover
  <1> HIDE DEF n, S
  <1> DEFINE t == [i \in DOMAIN q |-> h[q[i]].e]
  <1>8. t \in Seq(DeadMessages(c)) /\ Len(t) = n /\ \A i \in 1..n : t[i] = h[q[i]].e
    <2>1. \A i \in 1..n : h[q[i]].e \in DeadMessages(c)
      <3>1. \A i \in 1..n : h[q[i]] \in InHands(c)
        BY <1>5, <1>7
      <3> HIDE DEF h
      <3> QED BY <3>1 DEF InHands
    <2>2. t \in [1..n -> DeadMessages(c)]
      BY <1>7, <2>1
    <2> QED BY <1>6, <1>7, <2>2
  <1> HIDE DEF t
  <1>9. limbo' \in Seq(DeadMessages(c)) /\ \A m : Among(m, limbo) \/ Among(m, t) => Among(m, limbo')
    <2>1. limbo' = limbo \o t
      BY <1>4 DEF t
    <2>2. \A i \in DOMAIN limbo : i \in DOMAIN limbo' /\ limbo'[i] = limbo[i]
      BY <1>2, <1>8, <2>1
    <2>3. \A i \in DOMAIN t : Len(limbo) + i \in DOMAIN limbo' /\ limbo'[Len(limbo) + i] = t[i]
      BY <1>2, <1>8, <2>1
    <2>4. limbo' \in Seq(DeadMessages(c))
      BY <1>2, <1>8, <2>1
    <2> QED BY <2>2, <2>3, <2>4 DEF Among
  <1>a. \A m : Carried(m, cmd[k]) => Among(m, t)
    <2> SUFFICES ASSUME NEW m, NEW i \in DOMAIN h, h[i].held, h[i].e.m = m
                 PROVE  Among(m, t)
      BY DEF Carried
    <2>1. PICK j \in 1..n : q[j] = i
      BY <1>5, <1>7
    <2>2. DOMAIN t = 1..n /\ t[j] = h[i].e
      BY <1>6, <1>8, <2>1
    <2> QED BY <2>1, <2>2 DEF Among
  <1>b. /\ cmd' \in [c.Commands -> CommandStates(c)] /\ cmd'[k].hand = <<>>
        /\ cmd'[k].attempted = cmd[k].attempted /\ cmd'[k].pc # "new"
        /\ \A r \in c.Commands : r # k => cmd'[r] = cmd[r]
    <2> DEFINE old == cmd[k]
               none == <<>>
               new == [old EXCEPT !.pc = "cancelled", !.hand = none]
    <2>0. none \in Seq(InHands(c)) /\ old \in CommandStates(c)
      BY <1>2
    <2>1. cmd' = [cmd EXCEPT ![k] = new]
      BY <1>1, <1>2 DEF DeadInv, CommandsTyped, CommandStates
    <2> HIDE DEF old, none
    <2>2. new \in CommandStates(c) /\ new.hand = none /\ new.attempted = old.attempted /\ new.pc # "new"
      BY <2>0 DEF CommandStates
    <2> HIDE DEF new
    <2> QED BY <2>1, <2>2 DEF DeadInv, CommandsTyped, old, none
  <1>c. CommandsTyped(c)'
    <2>1. cmd[k].attempted \in Nat /\ Len(h) \in Nat /\ cmd[k].attempted + Len(h) <= c.Limit
      BY <1>2, <1>5 DEF CommandStates, DeadInv, CommandsTyped
    <2>2. cmd'[k].attempted + Len(cmd'[k].hand) <= c.Limit
      BY <1>b, <2>1 DEF DeadConfig
    <2> QED BY <1>b, <2>2 DEF DeadInv, CommandsTyped
  <1>d. \A m \in c.Msgs : Backed(c, m)'
    BY <1>1, <1>9, <1>a, <1>b DEF DeadInv, Backed
  <1> QED BY <1>1, <1>2, <1>9, <1>c, <1>d DEF DeadInv, QueuesTyped, CountsTyped

(* A lease that runs out brings its message back. *)
LEMMA ExpireHeldKeeps ==
  ASSUME NEW c, DeadConfig(c), DeadInv(c), NEW k \in c.Commands, Dead(c)!ExpireHeld(k)
  PROVE  DeadInv(c)'
  <1> DEFINE h == cmd[k].hand
  <1>1. PICK i \in DOMAIN h : h[i].held /\ cmd' = [cmd EXCEPT ![k].hand[i].held = FALSE]
                              /\ dead' = Append(dead, h[i].e)
    BY DEF Dead!ExpireHeld
  <1>2. UNCHANGED <<main, limbo, handled, discarded, cancels>>
    BY DEF Dead!ExpireHeld, Dead!ghosts
  <1>3. cmd[k] \in CommandStates(c) /\ h \in Seq(InHands(c)) /\ dead \in Seq(DeadMessages(c))
    BY DEF DeadInv, CommandsTyped, CommandStates, QueuesTyped
  <1> DEFINE g == [h EXCEPT ![i] = [h[i] EXCEPT !.held = FALSE]]
             new == [cmd[k] EXCEPT !.hand = g]
  <1>4. h[i] \in InHands(c) /\ h[i].e \in DeadMessages(c)
    <2>1. h[i] \in InHands(c)
      BY <1>3
    <2> HIDE DEF h
    <2> QED BY <2>1 DEF InHands
  <1>5. g \in Seq(InHands(c)) /\ Len(g) = Len(h) /\ DOMAIN g = DOMAIN h /\ \A j \in DOMAIN h : j # i => g[j] = h[j]
    <2> DEFINE x == [h[i] EXCEPT !.held = FALSE]
    <2>1. x \in InHands(c)
      BY <1>4 DEF InHands
    <2> HIDE DEF x, h
    <2>2. g = [h EXCEPT ![i] = x]
      BY DEF x
    <2>3. i \in 1..Len(h) /\ h \in [1..Len(h) -> InHands(c)] /\ Len(h) \in Nat
      BY <1>1, <1>3
    <2>4. g \in [1..Len(h) -> InHands(c)]
      BY <2>1, <2>2, <2>3
    <2> HIDE DEF g
    <2>5. g \in Seq(InHands(c)) /\ Len(g) = Len(h) /\ DOMAIN g = DOMAIN h
      BY <2>3, <2>4
    <2> QED BY <2>2, <2>3, <2>5
  <1>6. cmd' = [cmd EXCEPT ![k] = new]
    BY <1>1, <1>3 DEF DeadInv, CommandsTyped, CommandStates
  <1> HIDE DEF g
  <1>7. /\ new \in CommandStates(c) /\ new.hand = g /\ new.pc = cmd[k].pc
        /\ new.attempted = cmd[k].attempted
    BY <1>3, <1>5 DEF CommandStates
  <1> HIDE DEF new
  <1>8. /\ cmd' \in [c.Commands -> CommandStates(c)] /\ cmd'[k] = new
        /\ \A q \in c.Commands : q # k => cmd'[q] = cmd[q]
    BY <1>6, <1>7 DEF DeadInv, CommandsTyped
  <1>9. cmd[k].pc # "new"
    BY <1>1 DEF DeadInv, CommandsTyped
  <1>a. CommandsTyped(c)'
    BY <1>5, <1>7, <1>8, <1>9 DEF DeadInv, CommandsTyped
  <1>b. /\ dead' \in Seq(DeadMessages(c)) /\ \A m : Among(m, dead) => Among(m, dead')
        /\ Among(h[i].e.m, dead')
    BY <1>1, <1>3, <1>4, AppendAmong
  <1>c. \A m : Carried(m, cmd[k]) => Carried(m, cmd'[k]) \/ m = h[i].e.m
    BY <1>5, <1>7, <1>8 DEF Carried
  <1>d. \A m \in c.Msgs : Backed(c, m)'
    BY <1>2, <1>8, <1>b, <1>c DEF DeadInv, Backed
  <1> QED BY <1>2, <1>a, <1>b, <1>d DEF DeadInv, QueuesTyped, CountsTyped

(* Every step, or none, loses no message. *)
LEMMA DeadKept ==
  ASSUME NEW c, DeadConfig(c), DeadInv(c), [Dead(c)!Next]_(Dead(c)!vars)
  PROVE  DeadInv(c)'
  <1>1. CASE UNCHANGED Dead(c)!vars
    BY <1>1 DEF Dead!vars, Dead!queues, Dead!ghosts, Dead!bounds, DeadInv, QueuesTyped, CommandsTyped,
                CountsTyped, Backed
  <1>2. CASE Dead(c)!ExpireLimbo
    <2>1. limbo # <<>> /\ limbo' = Tail(limbo) /\ dead' = Append(dead, Head(limbo))
          /\ UNCHANGED <<main, cmd, handled, discarded, cancels>>
      BY <1>2 DEF Dead!ExpireLimbo, Dead!ghosts, Dead!bounds
    <2>2. /\ limbo' \in Seq(DeadMessages(c)) /\ Head(limbo) \in DeadMessages(c)
          /\ \A m : Among(m, limbo) => m = Head(limbo).m \/ Among(m, limbo')
      BY <2>1, TailAmong DEF DeadInv, QueuesTyped
    <2>3. /\ dead' \in Seq(DeadMessages(c)) /\ \A m : Among(m, dead) => Among(m, dead')
          /\ Among(Head(limbo).m, dead')
      BY <2>1, <2>2, AppendAmong DEF DeadInv, QueuesTyped
    <2>4. \A m \in c.Msgs : Backed(c, m)'
      BY <2>1, <2>2, <2>3 DEF DeadInv, Backed
    <2> QED BY <2>1, <2>2, <2>3, <2>4 DEF DeadInv, QueuesTyped, CommandsTyped, CountsTyped
  <1>3. ASSUME NEW k \in c.Commands, Dead(c)!Command(k)
        PROVE  DeadInv(c)'
    BY <1>3, BeginKeeps, StepKeeps, CancelKeeps, ExpireHeldKeeps DEF Dead!Command
  <1> QED BY <1>1, <1>2, <1>3, TaskKeeps DEF Dead!Next

(* What the invariant says of the dead letters. *)
LEMMA DeadImplies ==
  ASSUME NEW c, DeadInv(c)
  PROVE  Dead(c)!TypeOK /\ Dead(c)!NothingLost
  <1>1. \A i \in DOMAIN main : main[i].m \in c.Msgs /\ main[i].att \in 0..c.Attempts
    <2>1. \A i \in DOMAIN main : main[i] \in SourceMessages(c)
      BY DEF DeadInv, QueuesTyped
    <2> QED BY <2>1 DEF SourceMessages
  <1>2. \A k \in c.Commands : cmd[k].op \in Dead(c)!Ops \cup {"none"}
    BY DEF DeadInv, CommandsTyped, CommandStates, Dead!Ops
  <1>3. Dead(c)!TypeOK
    BY <1>1, <1>2 DEF DeadInv, CommandsTyped, CountsTyped, Dead!TypeOK
  <1>4. Dead(c)!NothingLost
    BY DEF DeadInv, Backed, Carried, Among, Dead!NothingLost, Dead!Among, Dead!InHand
  <1> QED BY <1>3, <1>4

\* Whatever the messages, the commands, their limit and the faults are: a message that
\* died is in a queue, in the hand of a command or leased until it succeeds or is
\* discarded, and no command attempts more than its limit.  A queue that does not lease
\* what it hands out must not have its commands cancelled.
THEOREM DeadLettersKept ==
  ASSUME NEW c, DeadConfig(c)
  PROVE  Dead(c)!Spec => [](Dead(c)!TypeOK /\ Dead(c)!NothingLost)
  <1>1. Dead(c)!Init => DeadInv(c)
    BY DeadInit
  <1>2. DeadInv(c) /\ [Dead(c)!Next]_(Dead(c)!vars) => DeadInv(c)'
    BY DeadKept
  <1>3. DeadInv(c) => Dead(c)!TypeOK /\ Dead(c)!NothingLost
    BY DeadImplies
  <1> QED BY <1>1, <1>2, <1>3, PTL DEF Dead!Spec

--------------------------------------------------------------------------------
(* A sequence that lists nothing twice, and what a sequence lists. *)
Once(q) == \A i, j \in DOMAIN q : q[i] = q[j] => i = j
Listed(q) == {q[i] : i \in DOMAIN q}

(* A configuration of the supervisor: the resources are finitely many, and no  *)
(* task lists one twice among its source, sinks and dead-letter sinks.  A      *)
(* restart would open such a resource twice, for start_task_runner does not    *)
(* look for duplicates.                                                        *)
LifecycleConfig(c) ==
  /\ IsFiniteSet(Lifecycle(c)!Resources)
  /\ \A t \in c.Tasks : c.Uses[t] \in Seq(Lifecycle(c)!Resources) /\ Once(c.Uses[t])

(* The state of the supervisor, and the resources each restart has to call.   *)
LifecycleTyped(c) ==
  /\ phase \in {"new", "opening", "rollback", "serving", "closing", "down", "failed"}
  /\ todo \in Seq(Lifecycle(c)!Resources) /\ opened \in Seq(Lifecycle(c)!Resources)
  /\ open \subseteq Lifecycle(c)!Resources /\ runner \subseteq c.Tasks /\ stop \in BOOLEAN
  /\ command \in [c.Tasks -> {"idle", "closing", "opening"}]
  /\ rest \in [c.Tasks -> Seq(Lifecycle(c)!Resources)]
  /\ \A t \in c.Tasks : /\ Listed(rest[t]) \subseteq Listed(c.Uses[t]) /\ Once(rest[t])
                        /\ command[t] = "idle" => rest[t] = <<>>

(* startup() and its rollback have the resources to themselves: what is open  *)
(* is what was opened, or what is still to be closed.                         *)
StartsAlone(c) ==
  /\ phase \in {"new", "opening", "rollback", "failed"} =>
       runner = {} /\ \A t \in c.Tasks : command[t] = "idle"
  /\ phase = "new" => open = {} /\ opened = <<>>
  /\ phase = "opening" =>
       /\ open = Listed(opened) /\ Once(todo) /\ Listed(todo) \cap open = {}
       /\ Listed(todo) \cup open = Lifecycle(c)!Resources
  /\ phase = "rollback" => open \subseteq Listed(todo)
  /\ phase = "failed" => open = {}

(* While the app serves, what is private to no task is open, and what a task  *)
(* uses is open while its runner runs.                                        *)
ServesOpen(c) ==
  phase = "serving" =>
    /\ \A r \in Lifecycle(c)!Resources : (\A t \in c.Tasks : r \notin Lifecycle(c)!Private(t)) => r \in open
    /\ \A t \in runner : command[t] = "idle" /\ Lifecycle(c)!Private(t) \subseteq open

(* A restart closes the private resources of its task before it opens them,   *)
(* and nobody else opens them in between.                                     *)
ReopensClosed(c) ==
  \A t \in c.Tasks :
    /\ command[t] = "closing" => Lifecycle(c)!Private(t) \cap open \subseteq Listed(rest[t])
    /\ command[t] = "opening" =>
         /\ Lifecycle(c)!Private(t) \cap open \cap Listed(rest[t]) = {}
         /\ phase = "serving" => Lifecycle(c)!Private(t) \subseteq open \cup Listed(rest[t])

LifecycleInv(c) ==
  LifecycleTyped(c) /\ again = {} /\ StartsAlone(c) /\ ServesOpen(c) /\ ReopensClosed(c)

(* The first of a list and the others. *)
LEMMA FirstAndRest ==
  ASSUME NEW S, NEW q \in Seq(S), q # <<>>
  PROVE  /\ Head(q) \in S /\ Tail(q) \in Seq(S)
         /\ Listed(q) = {Head(q)} \cup Listed(Tail(q))
         /\ Once(q) => Once(Tail(q)) /\ Head(q) \notin Listed(Tail(q))
  <1>1. Len(q) \in Nat \ {0} /\ DOMAIN q = 1..Len(q) /\ Head(q) = q[1] /\ Head(q) \in S /\ Tail(q) \in Seq(S)
    OBVIOUS
  <1>2. Len(Tail(q)) = Len(q) - 1 /\ DOMAIN Tail(q) = 1..(Len(q) - 1)
    BY <1>1
  <1>3. \A i \in 1..(Len(q) - 1) : Tail(q)[i] = q[i + 1]
    BY <1>1
  <1>4. Listed(Tail(q)) \subseteq Listed(q)
    BY <1>1, <1>2, <1>3 DEF Listed
  <1>5. Head(q) \in Listed(q)
    BY <1>1 DEF Listed
  <1>6. Listed(q) \subseteq {Head(q)} \cup Listed(Tail(q))
    <2> SUFFICES ASSUME NEW i \in 1..Len(q), q[i] # Head(q)
                 PROVE  q[i] \in Listed(Tail(q))
      BY <1>1 DEF Listed
    <2>1. i - 1 \in 1..(Len(q) - 1) /\ Tail(q)[i - 1] = q[(i - 1) + 1]
      BY <1>1, <1>3
    <2>2. Tail(q)[i - 1] = q[i] /\ i - 1 \in DOMAIN Tail(q)
      BY <1>1, <1>2, <2>1
    <2> QED BY <2>2 DEF Listed
  <1>7. ASSUME Once(q) PROVE Once(Tail(q)) /\ Head(q) \notin Listed(Tail(q))
    <2>1. \A i, j \in 1..(Len(q) - 1) : q[i + 1] = q[j + 1] => i = j
      BY <1>1, <1>7 DEF Once
    <2>2. Once(Tail(q))
      BY <1>2, <1>3, <2>1 DEF Once
    <2>3. \A i \in 1..(Len(q) - 1) : q[i + 1] # q[1]
      BY <1>1, <1>7 DEF Once
    <2>4. Head(q) \notin Listed(Tail(q))
      BY <1>1, <1>2, <1>3, <2>3 DEF Listed
    <2> QED BY <2>2, <2>4
  <1> QED BY <1>1, <1>4, <1>5, <1>6, <1>7

(* Nothing is listed by the empty list. *)
LEMMA ListsNothing ==
  /\ Once(<<>>) /\ Listed(<<>>) = {}
  /\ \A S : <<>> \in Seq(S)
  BY DEF Once, Listed

(* One more at the end. *)
LEMMA OneMore ==
  ASSUME NEW S, NEW q \in Seq(S), NEW r \in S
  PROVE  Append(q, r) \in Seq(S) /\ Listed(Append(q, r)) = Listed(q) \cup {r}
  <1>1. Append(q, r) \in Seq(S) /\ Len(Append(q, r)) = Len(q) + 1 /\ DOMAIN q = 1..Len(q) /\ Len(q) \in Nat
    OBVIOUS
  <1>2. DOMAIN Append(q, r) = 1..(Len(q) + 1)
    BY <1>1
  <1>3. /\ \A i \in 1..Len(q) : Append(q, r)[i] = q[i] 
        /\ Append(q, r)[Len(q) + 1] = r
    OBVIOUS
  <1>4. \A i \in 1..(Len(q) + 1) : i \in 1..Len(q) \/ i = Len(q) + 1
    BY <1>1
  <1>5. Listed(Append(q, r)) \subseteq Listed(q) \cup {r}
    BY <1>1, <1>2, <1>3, <1>4 DEF Listed
  <1>6. Listed(q) \subseteq Listed(Append(q, r)) /\ r \in Listed(Append(q, r))
    <2>1. \A i \in 1..Len(q) : i \in 1..(Len(q) + 1)
      BY <1>1
    <2>2. Len(q) + 1 \in 1..(Len(q) + 1)
      BY <1>1
    <2> QED BY <1>1, <1>2, <1>3, <2>1, <2>2 DEF Listed
  <1> QED BY <1>1, <1>5, <1>6

(* The same in the other direction. *)
LEMMA ListedBackwards ==
  ASSUME NEW c, NEW S, NEW q \in Seq(S)
  PROVE  Lifecycle(c)!Backwards(q) \in Seq(S) /\ Listed(Lifecycle(c)!Backwards(q)) = Listed(q)
  <1> DEFINE b == Lifecycle(c)!Backwards(q)
  <1>1. Len(q) \in Nat /\ DOMAIN q = 1..Len(q) /\ \A i \in 1..Len(q) : q[i] \in S
    OBVIOUS
  <1>2. \A i \in 1..Len(q) : Len(q) + 1 - i \in 1..Len(q) /\ Len(q) + 1 - (Len(q) + 1 - i) = i
    BY <1>1
  <1>3. DOMAIN b = 1..Len(q) /\ \A i \in 1..Len(q) : b[i] = q[Len(q) + 1 - i]
    BY DEF Lifecycle!Backwards
  <1>4. b \in Seq(S)
    <2>1. b = [i \in 1..Len(q) |-> q[Len(q) + 1 - i]]
      BY DEF Lifecycle!Backwards
    <2>2. \A i \in 1..Len(q) : q[Len(q) + 1 - i] \in S
      BY <1>1, <1>2
    <2> QED BY <1>1, <2>1, <2>2
  <1>5. Listed(b) \subseteq Listed(q)
    BY <1>1, <1>2, <1>3 DEF Listed
  <1>6. Listed(q) \subseteq Listed(b)
    <2> SUFFICES ASSUME NEW i \in 1..Len(q)
                 PROVE  q[i] \in Listed(b)
      BY <1>1 DEF Listed
    <2>1. b[Len(q) + 1 - i] = q[i] /\ Len(q) + 1 - i \in DOMAIN b
      BY <1>1, <1>2, <1>3
    <2> QED BY <2>1 DEF Listed
  <1> QED BY <1>4, <1>5, <1>6

(* A private resource belongs to one task. *)
LEMMA PrivateToOne ==
  ASSUME NEW c
  PROVE  /\ \A t \in c.Tasks : /\ Lifecycle(c)!Private(t) \subseteq Listed(c.Uses[t])
                               /\ Listed(c.Uses[t]) \subseteq Lifecycle(c)!Resources
         /\ \A t, u \in c.Tasks : t # u => Lifecycle(c)!Private(t) \cap Listed(c.Uses[u]) = {}
  BY DEF Lifecycle!Private, Lifecycle!Referenced, Lifecycle!Resources, Lifecycle!Members, Listed

(* Every instance of the supervisor counts as the library does. *)
LEMMA LifecycleCardinality ==
  ASSUME NEW c, NEW S
  PROVE  Lifecycle(c)!Cardinality(S) = Cardinality(S)
  BY DEF Lifecycle!Cardinality, Cardinality

(* startup() lists every resource once. *)
LEMMA AllListedOnce ==
  ASSUME NEW c, LifecycleConfig(c), NEW q \in Lifecycle(c)!AllResources
  PROVE  q \in Seq(Lifecycle(c)!Resources) /\ Once(q) /\ Listed(q) = Lifecycle(c)!Resources
  <1>0. Cardinality(Lifecycle(c)!Resources) \in Nat
    BY FS_CardinalityType DEF LifecycleConfig
  <1>1. q \in [1..Cardinality(Lifecycle(c)!Resources) -> Lifecycle(c)!Resources]
    BY LifecycleCardinality DEF Lifecycle!AllResources
  <1>2. Listed(q) = Lifecycle(c)!Resources
    BY DEF Lifecycle!AllResources, Lifecycle!Members, Listed
  <1>3. \A i, j \in DOMAIN q : i < j => q[i] # q[j]
    BY DEF Lifecycle!AllResources
  <1>4. Once(q)
    BY <1>0, <1>1, <1>3 DEF Once
  <1>5. q \in Seq(Lifecycle(c)!Resources)
    BY <1>0, <1>1
  <1> QED BY <1>2, <1>4, <1>5

LEMMA LifecycleInit ==
  ASSUME NEW c, Lifecycle(c)!Init
  PROVE  LifecycleInv(c)
  <1> USE ListsNothing
  <1>1. /\ phase = "new" /\ todo = <<>> /\ opened = <<>> /\ open = {} /\ again = {}
        /\ runner = {} /\ command = [t \in c.Tasks |-> "idle"] /\ rest = [t \in c.Tasks |-> <<>>]
        /\ stop = FALSE
    BY DEF Lifecycle!Init
  <1>2. LifecycleTyped(c)
    BY <1>1 DEF LifecycleTyped
  <1>3. StartsAlone(c) /\ ServesOpen(c) /\ ReopensClosed(c)
    BY <1>1 DEF StartsAlone, ServesOpen, ReopensClosed
  <1> QED BY <1>1, <1>2, <1>3 DEF LifecycleInv

(* The steps of startup(), of its rollback, of serve() and of shutdown(). *)
LEMMA StartupKept ==
  ASSUME NEW c, LifecycleConfig(c), LifecycleInv(c),
         \/ Lifecycle(c)!Startup \/ Lifecycle(c)!OpenNext \/ Lifecycle(c)!OpenFails
         \/ Lifecycle(c)!HooksRun \/ Lifecycle(c)!HooksFail
  PROVE  LifecycleInv(c)'
  <1> DEFINE R == Lifecycle(c)!Resources
  <1> USE ListsNothing, PrivateToOne DEF Lifecycle!restart_vars, Lifecycle!startup_vars
  <1>0. /\ LifecycleTyped(c) /\ again = {} /\ StartsAlone(c) /\ ServesOpen(c) /\ ReopensClosed(c)
        /\ command' = command /\ rest' = rest
    BY DEF LifecycleInv, Lifecycle!Startup, Lifecycle!OpenNext, Lifecycle!OpenFails,
           Lifecycle!HooksRun, Lifecycle!HooksFail
  <1>a. phase \in {"new", "opening"} /\ \A t \in c.Tasks : command[t] = "idle"
    BY <1>0 DEF StartsAlone, Lifecycle!Startup, Lifecycle!OpenNext, Lifecycle!OpenFails,
                Lifecycle!HooksRun, Lifecycle!HooksFail
  <1>b. ReopensClosed(c)'
    BY <1>0, <1>a DEF ReopensClosed
  <1>1. CASE Lifecycle(c)!Startup
    <2>1. /\ phase = "new" /\ phase' = "opening" /\ stop' = FALSE /\ todo' \in Lifecycle(c)!AllResources
          /\ opened' = opened /\ open' = open /\ again' = again /\ runner' = runner
      BY <1>1 DEF Lifecycle!Startup
    <2>2. todo' \in Seq(R) /\ Once(todo') /\ Listed(todo') = R
      BY <2>1, AllListedOnce
    <2>3. open = {} /\ opened = <<>> /\ runner = {}
      BY <1>0, <2>1 DEF StartsAlone
    <2>4. LifecycleTyped(c)'
      BY <1>0, <2>1, <2>2 DEF LifecycleTyped
    <2>5. StartsAlone(c)' /\ ServesOpen(c)'
      BY <1>0, <1>a, <2>1, <2>2, <2>3 DEF StartsAlone, ServesOpen
    <2> QED BY <1>0, <1>b, <2>1, <2>4, <2>5 DEF LifecycleInv
  <1>2. CASE Lifecycle(c)!OpenNext
    <2>1. /\ phase = "opening" /\ todo # <<>> /\ open' = open \cup {Head(todo)}
          /\ again' = again \cup ({Head(todo)} \cap open)
          /\ opened' = Append(opened, Head(todo)) /\ todo' = Tail(todo)
          /\ phase' = phase /\ runner' = runner /\ stop' = stop
      BY <1>2 DEF Lifecycle!OpenNext, Lifecycle!Calls
    <2>2. todo \in Seq(R) /\ opened \in Seq(R)
      BY <1>0 DEF LifecycleTyped
    <2>3. /\ open = Listed(opened) /\ Once(todo) /\ Listed(todo) \cap open = {}
          /\ Listed(todo) \cup open = R /\ runner = {}
      BY <1>0, <2>1 DEF StartsAlone
    <2>4. /\ Head(todo) \in R /\ Tail(todo) \in Seq(R) /\ Listed(todo) = {Head(todo)} \cup Listed(Tail(todo))
          /\ Once(Tail(todo)) /\ Head(todo) \notin Listed(Tail(todo))
      BY <2>1, <2>2, <2>3, FirstAndRest
    <2>5. opened' \in Seq(R) /\ Listed(opened') = Listed(opened) \cup {Head(todo)}
      BY <2>1, <2>2, <2>4, OneMore
    <2>6. LifecycleTyped(c)'
      BY <1>0, <2>1, <2>4, <2>5 DEF LifecycleTyped
    <2>7. StartsAlone(c)' /\ ServesOpen(c)' /\ again' = {}
      BY <1>0, <1>a, <2>1, <2>3, <2>4, <2>5 DEF StartsAlone, ServesOpen
    <2> QED BY <1>b, <2>6, <2>7 DEF LifecycleInv
  <1>3. CASE Lifecycle(c)!OpenFails \/ Lifecycle(c)!HooksFail
    <2>1. /\ phase = "opening" /\ phase' = "rollback" /\ todo' = Lifecycle(c)!Backwards(opened)
          /\ opened' = opened /\ open' = open /\ again' = again /\ runner' = runner /\ stop' = stop
      BY <1>3 DEF Lifecycle!OpenFails, Lifecycle!HooksFail
    <2>2. todo' \in Seq(R) /\ Listed(todo') = Listed(opened)
      BY <1>0, <2>1, ListedBackwards DEF LifecycleTyped
    <2>3. open = Listed(opened) /\ runner = {}
      BY <1>0, <2>1 DEF StartsAlone
    <2>4. LifecycleTyped(c)'
      BY <1>0, <2>1, <2>2 DEF LifecycleTyped
    <2>5. StartsAlone(c)' /\ ServesOpen(c)'
      BY <1>0, <1>a, <2>1, <2>2, <2>3 DEF StartsAlone, ServesOpen
    <2> QED BY <1>0, <1>b, <2>1, <2>4, <2>5 DEF LifecycleInv
  <1>4. CASE Lifecycle(c)!HooksRun
    <2>1. /\ phase = "opening" /\ todo = <<>> /\ phase' = "serving" /\ runner' = c.Tasks
          /\ todo' = todo /\ opened' = opened /\ open' = open /\ again' = again /\ stop' = stop
      BY <1>4 DEF Lifecycle!HooksRun
    <2>2. open = R
      BY <1>0, <2>1 DEF StartsAlone
    <2>3. LifecycleTyped(c)'
      BY <1>0, <2>1 DEF LifecycleTyped
    <2>4. StartsAlone(c)'
      BY <2>1 DEF StartsAlone
    <2>5. \A t \in c.Tasks : Lifecycle(c)!Private(t) \subseteq R
      OBVIOUS
    <2>6. ServesOpen(c)'
      BY <1>0, <1>a, <2>1, <2>2, <2>5 DEF ServesOpen
    <2> QED BY <1>0, <1>b, <2>1, <2>3, <2>4, <2>6 DEF LifecycleInv
  <1> QED BY <1>1, <1>2, <1>3, <1>4

LEMMA ShutdownKept ==
  ASSUME NEW c, LifecycleConfig(c), LifecycleInv(c),
         \/ Lifecycle(c)!CloseNext \/ Lifecycle(c)!Closed \/ Lifecycle(c)!Signal
         \/ Lifecycle(c)!ServeEnds \/ \E t \in c.Tasks : Lifecycle(c)!RunnerEnds(t)
  PROVE  LifecycleInv(c)'
  <1> DEFINE R == Lifecycle(c)!Resources
  <1> USE ListsNothing DEF Lifecycle!restart_vars, Lifecycle!startup_vars
  <1>0. /\ LifecycleTyped(c) /\ again = {} /\ StartsAlone(c) /\ ServesOpen(c) /\ ReopensClosed(c)
        /\ command' = command /\ rest' = rest /\ again' = again
    BY DEF LifecycleInv, Lifecycle!CloseNext, Lifecycle!Closed, Lifecycle!Signal,
           Lifecycle!ServeEnds, Lifecycle!RunnerEnds
  <1>1. CASE Lifecycle(c)!CloseNext
    <2>1. /\ phase \in {"rollback", "closing"} /\ todo # <<>> /\ open' = open \ {Head(todo)}
          /\ todo' = Tail(todo) /\ phase' = phase /\ opened' = opened /\ runner' = runner /\ stop' = stop
      BY <1>1 DEF Lifecycle!CloseNext, Lifecycle!GoOn
    <2>2. Tail(todo) \in Seq(R) /\ Listed(todo) = {Head(todo)} \cup Listed(Tail(todo))
      BY <1>0, <2>1, FirstAndRest DEF LifecycleTyped
    <2>3. LifecycleTyped(c)'
      BY <1>0, <2>1, <2>2 DEF LifecycleTyped
    <2>4. StartsAlone(c)' /\ ServesOpen(c)'
      BY <1>0, <2>1, <2>2 DEF StartsAlone, ServesOpen
    <2>5. ReopensClosed(c)'
      BY <1>0, <2>1 DEF ReopensClosed
    <2> QED BY <1>0, <2>3, <2>4, <2>5 DEF LifecycleInv
  <1>2. CASE Lifecycle(c)!Closed
    <2>1. /\ phase \in {"rollback", "closing"} /\ todo = <<>>
          /\ phase' = (IF phase = "rollback" THEN "failed" ELSE "down")
          /\ opened' = <<>> /\ runner' = {} /\ todo' = todo /\ open' = open /\ stop' = stop
      BY <1>2 DEF Lifecycle!Closed
    <2>2. LifecycleTyped(c)'
      BY <1>0, <2>1 DEF LifecycleTyped
    <2>3. StartsAlone(c)' /\ ServesOpen(c)'
      BY <1>0, <2>1 DEF StartsAlone, ServesOpen
    <2>4. ReopensClosed(c)'
      BY <1>0, <2>1 DEF ReopensClosed
    <2> QED BY <1>0, <2>2, <2>3, <2>4 DEF LifecycleInv
  <1>3. CASE Lifecycle(c)!Signal
    <2>1. phase' = phase /\ todo' = todo /\ opened' = opened /\ open' = open /\ runner' = runner /\ stop' = TRUE
      BY <1>3 DEF Lifecycle!Signal
    <2>2. LifecycleTyped(c)'
      BY <1>0, <2>1 DEF LifecycleTyped
    <2>3. StartsAlone(c)' /\ ServesOpen(c)' /\ ReopensClosed(c)'
      BY <1>0, <2>1 DEF StartsAlone, ServesOpen, ReopensClosed
    <2> QED BY <1>0, <2>2, <2>3 DEF LifecycleInv
  <1>4. CASE Lifecycle(c)!ServeEnds
    <2>1. /\ phase = "serving" /\ phase' = "closing" /\ todo' = Lifecycle(c)!Backwards(opened)
          /\ opened' = opened /\ open' = open /\ runner' = runner /\ stop' = stop
      BY <1>4 DEF Lifecycle!ServeEnds
    <2>2. todo' \in Seq(R)
      BY <1>0, <2>1, ListedBackwards DEF LifecycleTyped
    <2>3. LifecycleTyped(c)'
      BY <1>0, <2>1, <2>2 DEF LifecycleTyped
    <2>4. StartsAlone(c)' /\ ServesOpen(c)'
      BY <2>1 DEF StartsAlone, ServesOpen
    <2>5. ReopensClosed(c)'
      BY <1>0, <2>1 DEF ReopensClosed
    <2> QED BY <1>0, <2>3, <2>4, <2>5 DEF LifecycleInv
  <1>5. CASE \E t \in c.Tasks : Lifecycle(c)!RunnerEnds(t)
    <2>1. PICK t \in c.Tasks : Lifecycle(c)!RunnerEnds(t)
      BY <1>5
    <2>2. /\ phase = "serving" /\ runner' = runner \ {t}
          /\ phase' = phase /\ todo' = todo /\ opened' = opened /\ open' = open /\ stop' = stop
      BY <2>1 DEF Lifecycle!RunnerEnds
    <2>3. LifecycleTyped(c)'
      BY <1>0, <2>2 DEF LifecycleTyped
    <2>4. StartsAlone(c)' /\ ServesOpen(c)' /\ ReopensClosed(c)'
      BY <1>0, <2>2 DEF StartsAlone, ServesOpen, ReopensClosed
    <2> QED BY <1>0, <2>3, <2>4 DEF LifecycleInv
  <1> QED BY <1>1, <1>2, <1>3, <1>4, <1>5

(* The steps of a restart. *)
LEMMA RestartLifecycle ==
  ASSUME NEW c, LifecycleConfig(c), LifecycleInv(c), NEW t \in c.Tasks,
         \/ Lifecycle(c)!RestartBegins(t) \/ Lifecycle(c)!RestartCloses(t)
         \/ Lifecycle(c)!RestartOpens(t) \/ Lifecycle(c)!RestartFails(t)
  PROVE  LifecycleInv(c)'
  <1> DEFINE R == Lifecycle(c)!Resources
             P(u) == Lifecycle(c)!Private(u)
  <1> USE ListsNothing DEF Lifecycle!startup_vars
  <1>0. /\ LifecycleTyped(c) /\ again = {} /\ StartsAlone(c) /\ ServesOpen(c) /\ ReopensClosed(c)
        /\ phase' = phase /\ todo' = todo /\ opened' = opened /\ stop' = stop
    BY DEF LifecycleInv, Lifecycle!RestartBegins, Lifecycle!RestartCloses,
           Lifecycle!RestartOpens, Lifecycle!RestartFails
  <1>a. /\ command \in [c.Tasks -> {"idle", "closing", "opening"}] /\ rest \in [c.Tasks -> Seq(R)]
        /\ Listed(rest[t]) \subseteq Listed(c.Uses[t]) /\ Once(rest[t]) /\ rest[t] \in Seq(R)
        /\ open \subseteq R /\ runner \subseteq c.Tasks
    BY <1>0 DEF LifecycleTyped
  <1>b. /\ P(t) \subseteq Listed(c.Uses[t]) /\ Listed(c.Uses[t]) \subseteq R
        /\ \A u \in c.Tasks \ {t} : P(u) \cap P(t) = {}
        /\ c.Uses[t] \in Seq(R) /\ Once(c.Uses[t])
    BY PrivateToOne DEF LifecycleConfig
  <1>c. phase \notin {"new", "opening", "rollback", "failed"}
    BY <1>0 DEF StartsAlone, Lifecycle!RestartBegins, Lifecycle!RestartCloses,
                Lifecycle!RestartOpens, Lifecycle!RestartFails
  <1>d. StartsAlone(c)'
    BY <1>0, <1>c DEF StartsAlone
  <1>e. \A u \in c.Tasks \ {t} : command'[u] = command[u] /\ rest'[u] = rest[u]
    BY <1>a DEF Lifecycle!RestartBegins, Lifecycle!RestartCloses,
                Lifecycle!RestartOpens, Lifecycle!RestartFails
  <1>1. ASSUME command' \in [c.Tasks -> {"idle", "closing", "opening"}], rest' \in [c.Tasks -> Seq(R)],
               Listed(rest'[t]) \subseteq Listed(c.Uses[t]), Once(rest'[t]),
               command'[t] = "idle" => rest'[t] = <<>>,
               open' \subseteq R, runner' \subseteq c.Tasks
        PROVE  LifecycleTyped(c)'
    <2>1. \A u \in c.Tasks : /\ Listed(rest'[u]) \subseteq Listed(c.Uses[u]) /\ Once(rest'[u])
                             /\ command'[u] = "idle" => rest'[u] = <<>>
      BY <1>0, <1>1, <1>e DEF LifecycleTyped
    <2> QED BY <1>0, <1>1, <2>1 DEF LifecycleTyped
  <1>2. ASSUME open \ P(t) \subseteq open', open' \subseteq open \cup P(t),
               runner' \subseteq runner \cup {t},
               t \in runner' /\ phase = "serving" => command'[t] = "idle" /\ P(t) \subseteq open'
        PROVE  ServesOpen(c)'
    <2> SUFFICES ASSUME phase = "serving"
                 PROVE  /\ \A r \in R : (\A u \in c.Tasks : r \notin P(u)) => r \in open'
                        /\ \A u \in runner' : command'[u] = "idle" /\ P(u) \subseteq open'
      BY <1>0 DEF ServesOpen
    <2>1. \A r \in R : (\A u \in c.Tasks : r \notin P(u)) => r \in open'
      BY <1>0, <1>2 DEF ServesOpen
    <2>2. ASSUME NEW u \in runner', u # t PROVE command'[u] = "idle" /\ P(u) \subseteq open'
      <3>1. u \in runner /\ u \in c.Tasks \ {t}
        BY <1>2, <1>a, <2>2
      <3>2. command[u] = "idle" /\ P(u) \subseteq open
        BY <1>0, <3>1 DEF ServesOpen
      <3> QED BY <1>2, <1>b, <1>e, <3>1, <3>2
    <2> QED BY <1>2, <2>1, <2>2
  <1>3. ASSUME open \ P(t) \subseteq open', open' \subseteq open \cup P(t),
               command'[t] = "closing" => P(t) \cap open' \subseteq Listed(rest'[t]),
               command'[t] = "opening" =>
                 /\ P(t) \cap open' \cap Listed(rest'[t]) = {}
                 /\ phase = "serving" => P(t) \subseteq open' \cup Listed(rest'[t])
        PROVE  ReopensClosed(c)'
    <2> SUFFICES ASSUME NEW u \in c.Tasks, u # t
                 PROVE  /\ command'[u] = "closing" => P(u) \cap open' \subseteq Listed(rest'[u])
                        /\ command'[u] = "opening" =>
                             /\ P(u) \cap open' \cap Listed(rest'[u]) = {}
                             /\ phase = "serving" => P(u) \subseteq open' \cup Listed(rest'[u])
      BY <1>0, <1>3 DEF ReopensClosed
    <2>1. P(u) \cap open' = P(u) \cap open
      BY <1>3, <1>b
    <2>2. /\ command[u] = "closing" => P(u) \cap open \subseteq Listed(rest[u])
          /\ command[u] = "opening" =>
               /\ P(u) \cap open \cap Listed(rest[u]) = {}
               /\ phase = "serving" => P(u) \subseteq open \cup Listed(rest[u])
      BY <1>0 DEF ReopensClosed
    <2>3. command'[u] = command[u] /\ rest'[u] = rest[u]
      BY <1>e
    <2> QED BY <2>1, <2>2, <2>3
  <1> HIDE DEF P, R
  <1>4. CASE Lifecycle(c)!RestartBegins(t)
    <2>1. /\ phase = "serving" /\ runner' = runner \ {t} /\ open' = open /\ again' = again
          /\ command'[t] = "closing" /\ rest'[t] = c.Uses[t]
          /\ command' \in [c.Tasks -> {"idle", "closing", "opening"}] /\ rest' \in [c.Tasks -> Seq(R)]
      BY <1>4, <1>a, <1>b DEF Lifecycle!RestartBegins
    <2>2. LifecycleTyped(c)'
      BY <1>1, <1>a, <1>b, <2>1
    <2>3. ServesOpen(c)'
      BY <1>2, <2>1
    <2>4. ReopensClosed(c)'
      BY <1>3, <1>b, <2>1
    <2> QED BY <1>0, <1>d, <2>1, <2>2, <2>3, <2>4 DEF LifecycleInv
  <1>5. CASE Lifecycle(c)!RestartCloses(t)
    <2>1. command[t] = "closing" /\ P(t) \cap open \subseteq Listed(rest[t]) /\ again' = again /\ runner' = runner
      BY <1>0, <1>5 DEF Lifecycle!RestartCloses, ReopensClosed, P
    <2>2. t \notin runner \/ phase # "serving"
      BY <1>0, <2>1 DEF ServesOpen
    <2>3. CASE rest[t] = <<>>
      <3>1. /\ command'[t] = "opening" /\ rest'[t] = c.Uses[t] /\ open' = open
            /\ command' \in [c.Tasks -> {"idle", "closing", "opening"}] /\ rest' \in [c.Tasks -> Seq(R)]
        BY <1>5, <1>a, <1>b, <2>3 DEF Lifecycle!RestartCloses
      <3>2. P(t) \cap open = {}
        BY <2>1, <2>3
      <3>3. LifecycleTyped(c)'
        BY <1>1, <1>a, <1>b, <2>1, <3>1
      <3>4. ServesOpen(c)'
        BY <1>2, <2>1, <2>2, <3>1
      <3>5. ReopensClosed(c)'
        BY <1>3, <1>b, <3>1, <3>2
      <3> QED BY <1>0, <1>d, <2>1, <3>3, <3>4, <3>5 DEF LifecycleInv
    <2>4. CASE rest[t] # <<>>
      <3>1. /\ command' = command /\ rest'[t] = Tail(rest[t]) /\ open' = open \ ({Head(rest[t])} \cap P(t))
        BY <1>5, <1>a, <2>4 DEF Lifecycle!RestartCloses, P
      <3>2. /\ Tail(rest[t]) \in Seq(R) /\ Listed(rest[t]) = {Head(rest[t])} \cup Listed(Tail(rest[t]))
            /\ Once(Tail(rest[t]))
        BY <1>a, <2>4, FirstAndRest
      <3>3. rest' \in [c.Tasks -> Seq(R)]
        BY <1>5, <1>a, <2>4, <3>2 DEF Lifecycle!RestartCloses
      <3>4. LifecycleTyped(c)'
        BY <1>1, <1>a, <2>1, <3>1, <3>2, <3>3
      <3>5. ServesOpen(c)'
        BY <1>2, <2>1, <2>2, <3>1
      <3>6. ReopensClosed(c)'
        BY <1>3, <2>1, <3>1, <3>2
      <3> QED BY <1>0, <1>d, <2>1, <3>4, <3>5, <3>6 DEF LifecycleInv
    <2> QED BY <2>3, <2>4
  <1>6. CASE Lifecycle(c)!RestartOpens(t)
    <2>1. /\ command[t] = "opening" /\ P(t) \cap open \cap Listed(rest[t]) = {}
          /\ phase = "serving" => P(t) \subseteq open \cup Listed(rest[t])
      BY <1>0, <1>6 DEF Lifecycle!RestartOpens, ReopensClosed, P
    <2>2. t \notin runner \/ phase # "serving"
      BY <1>0, <2>1 DEF ServesOpen
    <2>3. CASE rest[t] = <<>>
      <3>1. /\ command'[t] = "idle" /\ rest' = rest /\ open' = open /\ again' = again /\ runner' = runner \cup {t}
            /\ command' \in [c.Tasks -> {"idle", "closing", "opening"}]
        BY <1>6, <1>a, <2>3 DEF Lifecycle!RestartOpens
      <3>2. phase = "serving" => P(t) \subseteq open
        BY <2>1, <2>3
      <3>3. LifecycleTyped(c)'
        BY <1>1, <1>a, <2>3, <3>1
      <3>4. ServesOpen(c)'
        BY <1>2, <3>1, <3>2
      <3>5. ReopensClosed(c)'
        BY <1>3, <3>1
      <3> QED BY <1>0, <1>d, <3>1, <3>3, <3>4, <3>5 DEF LifecycleInv
    <2>4. CASE rest[t] # <<>>
      <3>1. /\ command' = command /\ runner' = runner /\ rest'[t] = Tail(rest[t])
            /\ open' = open \cup ({Head(rest[t])} \cap P(t)) /\ again' = again \cup (({Head(rest[t])} \cap P(t)) \cap open)
        BY <1>6, <1>a, <2>4 DEF Lifecycle!RestartOpens, Lifecycle!Calls, P
      <3>2. /\ Tail(rest[t]) \in Seq(R) /\ Listed(rest[t]) = {Head(rest[t])} \cup Listed(Tail(rest[t]))
            /\ Once(Tail(rest[t])) /\ Head(rest[t]) \notin Listed(Tail(rest[t])) /\ Head(rest[t]) \in R
        BY <1>a, <2>4, FirstAndRest
      <3>3. rest' \in [c.Tasks -> Seq(R)]
        BY <1>6, <1>a, <2>4, <3>2 DEF Lifecycle!RestartOpens
      <3>4. again' = {}
        BY <1>0, <2>1, <3>1, <3>2
      <3>5. LifecycleTyped(c)'
        BY <1>1, <1>a, <2>1, <3>1, <3>2, <3>3
      <3>6. ServesOpen(c)'
        BY <1>2, <2>1, <2>2, <3>1
      <3>7. ReopensClosed(c)'
        BY <1>3, <2>1, <3>1, <3>2
      <3> QED BY <1>d, <3>4, <3>5, <3>6, <3>7 DEF LifecycleInv
    <2> QED BY <2>3, <2>4
  <1>7. CASE Lifecycle(c)!RestartFails(t)
    <2>1. /\ command[t] = "opening" /\ command'[t] = "idle" /\ rest'[t] = <<>>
          /\ open' = open /\ again' = again /\ runner' = runner
          /\ command' \in [c.Tasks -> {"idle", "closing", "opening"}] /\ rest' \in [c.Tasks -> Seq(R)]
      BY <1>7, <1>a DEF Lifecycle!RestartFails
    <2>2. t \notin runner \/ phase # "serving"
      BY <1>0, <2>1 DEF ServesOpen
    <2>3. LifecycleTyped(c)'
      BY <1>1, <1>a, <2>1
    <2>4. ServesOpen(c)'
      BY <1>2, <2>1, <2>2
    <2>5. ReopensClosed(c)'
      BY <1>3, <2>1
    <2> QED BY <1>0, <1>d, <2>1, <2>3, <2>4, <2>5 DEF LifecycleInv
  <1> QED BY <1>4, <1>5, <1>6, <1>7

LEMMA LifecycleKept ==
  ASSUME NEW c, LifecycleConfig(c), LifecycleInv(c), [Lifecycle(c)!Next]_(Lifecycle(c)!vars)
  PROVE  LifecycleInv(c)'
  <1>1. CASE UNCHANGED Lifecycle(c)!vars
    BY <1>1 DEF Lifecycle!vars, LifecycleInv, LifecycleTyped, StartsAlone, ServesOpen, ReopensClosed
  <1>2. CASE Lifecycle(c)!Next
    BY <1>2, StartupKept, ShutdownKept, RestartLifecycle DEF Lifecycle!Next
  <1> QED BY <1>1, <1>2

LEMMA LifecycleImplies ==
  ASSUME NEW c, LifecycleConfig(c), LifecycleInv(c)
  PROVE  Lifecycle(c)!TypeOK /\ Lifecycle(c)!RunnersOpen /\ Lifecycle(c)!OpenedOnce
  <1> DEFINE R == Lifecycle(c)!Resources
  <1>0. /\ LifecycleTyped(c) /\ again = {} /\ ServesOpen(c)
    BY DEF LifecycleInv
  <1>1. Listed(todo) \subseteq R /\ Listed(opened) \subseteq R
    BY <1>0 DEF LifecycleTyped, Listed
  <1>2. Lifecycle(c)!TypeOK
    BY <1>0, <1>1 DEF LifecycleTyped, Lifecycle!TypeOK, Lifecycle!Members, Listed
  <1>3. ASSUME phase = "serving", NEW t \in runner PROVE Listed(c.Uses[t]) \subseteq open
    <2> SUFFICES ASSUME NEW r \in Listed(c.Uses[t])
                 PROVE  r \in open
      OBVIOUS
    <2>1. t \in c.Tasks /\ r \in R
      BY <1>0, <1>3, PrivateToOne DEF LifecycleTyped
    <2>2. \A u \in c.Tasks : u # t => r \notin Lifecycle(c)!Private(u)
      BY <2>1, PrivateToOne
    <2> QED BY <1>0, <1>3, <2>1, <2>2 DEF ServesOpen
  <1>4. Lifecycle(c)!RunnersOpen
    BY <1>3 DEF Lifecycle!RunnersOpen, Lifecycle!Members, Listed
  <1> QED BY <1>0, <1>2, <1>4 DEF Lifecycle!OpenedOnce

\* Whatever is restarted, however often and whatever fails on the way: while the app
\* serves, what a running task uses is open, and open() is never called on a resource
\* that is open.
THEOREM RestartsShareNothing ==
  ASSUME NEW c, LifecycleConfig(c)
  PROVE  Lifecycle(c)!Spec => []( /\ Lifecycle(c)!TypeOK /\ Lifecycle(c)!RunnersOpen
                                  /\ Lifecycle(c)!OpenedOnce )
  <1>1. Lifecycle(c)!Init => LifecycleInv(c)
    BY LifecycleInit
  <1>2. LifecycleInv(c) /\ [Lifecycle(c)!Next]_(Lifecycle(c)!vars) => LifecycleInv(c)'
    BY LifecycleKept
  <1>3. LifecycleInv(c) => Lifecycle(c)!TypeOK /\ Lifecycle(c)!RunnersOpen /\ Lifecycle(c)!OpenedOnce
    BY LifecycleImplies
  <1> QED BY <1>1, <1>2, <1>3, PTL DEF Lifecycle!Spec

(* Without restarts only startup(), its rollback and shutdown() open and close. *)
LeakInv(c) ==
  /\ restarts \in Nat /\ \A t \in c.Tasks : command[t] = "idle"
  /\ phase \in {"opening", "serving"} => open \subseteq Listed(opened)
  /\ phase \in {"rollback", "closing"} => open \subseteq Listed(todo)
  /\ phase \in {"new", "failed", "down"} => open = {}

LEMMA LeakInit ==
  ASSUME NEW c, Lifecycle(c)!Init
  PROVE  LeakInv(c)
  BY DEF Lifecycle!Init, LeakInv

LEMMA LeakKept ==
  ASSUME NEW c, c.MaxRestarts = 0, LifecycleConfig(c), LifecycleInv(c), LeakInv(c),
         [Lifecycle(c)!Next]_(Lifecycle(c)!vars)
  PROVE  LeakInv(c)'
  <1> DEFINE R == Lifecycle(c)!Resources
  <1> USE ListsNothing DEF Lifecycle!restart_vars, Lifecycle!startup_vars
  <1>0. LifecycleTyped(c) /\ todo \in Seq(R) /\ opened \in Seq(R)
    BY DEF LifecycleInv, LifecycleTyped
  <1>1. CASE UNCHANGED Lifecycle(c)!vars
    BY <1>1 DEF Lifecycle!vars, LeakInv
  <1>2. CASE Lifecycle(c)!Startup \/ Lifecycle(c)!HooksRun \/ Lifecycle(c)!Signal
    BY <1>2 DEF Lifecycle!Startup, Lifecycle!HooksRun, Lifecycle!Signal, LeakInv
  <1>3. CASE Lifecycle(c)!OpenNext
    <2>1. /\ phase = "opening" /\ todo # <<>> /\ open' = open \cup {Head(todo)}
          /\ opened' = Append(opened, Head(todo)) /\ phase' = phase /\ command' = command /\ restarts' = restarts
      BY <1>3 DEF Lifecycle!OpenNext, Lifecycle!Calls
    <2>2. Head(todo) \in R
      BY <1>0, <2>1, FirstAndRest
    <2>3. Listed(opened') = Listed(opened) \cup {Head(todo)}
      BY <1>0, <2>1, <2>2, OneMore
    <2> QED BY <2>1, <2>3 DEF LeakInv
  <1>4. CASE Lifecycle(c)!OpenFails \/ Lifecycle(c)!HooksFail \/ Lifecycle(c)!ServeEnds
    <2>1. /\ phase \in {"opening", "serving"} /\ phase' \in {"rollback", "closing"}
          /\ todo' = Lifecycle(c)!Backwards(opened) /\ open' = open /\ command' = command /\ restarts' = restarts
      BY <1>4 DEF Lifecycle!OpenFails, Lifecycle!HooksFail, Lifecycle!ServeEnds
    <2>2. Listed(todo') = Listed(opened)
      BY <1>0, <2>1, ListedBackwards
    <2> QED BY <2>1, <2>2 DEF LeakInv
  <1>5. CASE Lifecycle(c)!CloseNext
    <2>1. /\ phase \in {"rollback", "closing"} /\ todo # <<>> /\ open' = open \ {Head(todo)}
          /\ todo' = Tail(todo) /\ phase' = phase /\ command' = command /\ restarts' = restarts
      BY <1>5 DEF Lifecycle!CloseNext, Lifecycle!GoOn
    <2>2. Listed(todo) = {Head(todo)} \cup Listed(Tail(todo))
      BY <1>0, <2>1, FirstAndRest
    <2> QED BY <2>1, <2>2 DEF LeakInv
  <1>6. CASE Lifecycle(c)!Closed
    <2>1. /\ phase \in {"rollback", "closing"} /\ todo = <<>> /\ phase' \in {"failed", "down"}
          /\ open' = open /\ command' = command /\ restarts' = restarts
      BY <1>6 DEF Lifecycle!Closed
    <2> QED BY <2>1 DEF LeakInv
  <1>7. CASE \E t \in c.Tasks : Lifecycle(c)!RunnerEnds(t)
    BY <1>7 DEF Lifecycle!RunnerEnds, LeakInv
  <1>8. ASSUME NEW t \in c.Tasks,
               \/ Lifecycle(c)!RestartBegins(t) \/ Lifecycle(c)!RestartCloses(t)
               \/ Lifecycle(c)!RestartOpens(t) \/ Lifecycle(c)!RestartFails(t)
        PROVE  FALSE
    BY <1>8 DEF Lifecycle!RestartBegins, Lifecycle!RestartCloses, Lifecycle!RestartOpens,
                Lifecycle!RestartFails, LeakInv
  <1> QED BY <1>1, <1>2, <1>3, <1>4, <1>5, <1>6, <1>7, <1>8 DEF Lifecycle!Next

\* A failed startup and a shutdown leave nothing open behind them, whichever opens,
\* closes and hooks fail, when no task is restarted meanwhile.
THEOREM NothingLeftOpen ==
  ASSUME NEW c, LifecycleConfig(c), c.MaxRestarts = 0
  PROVE  Lifecycle(c)!Spec => []Lifecycle(c)!NothingLeaks
  <1>1. Lifecycle(c)!Init => LifecycleInv(c) /\ LeakInv(c)
    BY LifecycleInit, LeakInit
  <1>2. LifecycleInv(c) /\ LeakInv(c) /\ [Lifecycle(c)!Next]_(Lifecycle(c)!vars)
          => (LifecycleInv(c) /\ LeakInv(c))'
    BY LifecycleKept, LeakKept
  <1>3. LeakInv(c) => Lifecycle(c)!NothingLeaks
    BY DEF LeakInv, Lifecycle!NothingLeaks
  <1> QED BY <1>1, <1>2, <1>3, PTL DEF Lifecycle!Spec

--------------------------------------------------------------------------------
(* How many elements of a sequence are in A. *)
Count(A, s) == Cardinality({i \in DOMAIN s : s[i] \in A})
(* How many of its first n are. *)
FirstCount(A, s, n) == Cardinality({i \in 1..n : s[i] \in A})

(* Two finite sets with a one-to-one map between them are of one size. *)
LEMMA SameSize ==
  ASSUME NEW S, NEW T, IsFiniteSet(S), NEW f \in [S -> T],
         \A x, y \in S : f[x] = f[y] => x = y, \A y \in T : \E x \in S : f[x] = y
  PROVE  IsFiniteSet(T) /\ Cardinality(T) = Cardinality(S)
  <1>1. f \in Bijection(S, T)
    BY DEF Bijection, Injection, Surjection, IsInjective
  <1>2. ExistsBijection(S, T)
    BY <1>1 DEF ExistsBijection
  <1> QED BY <1>2, FS_Bijection

(* The places of a sequence are finitely many. *)
LEMMA CountType ==
  ASSUME NEW S, NEW s \in Seq(S), NEW A
  PROVE  /\ IsFiniteSet({i \in DOMAIN s : s[i] \in A}) /\ Count(A, s) \in Nat
         /\ s = <<>> => Count(A, s) = 0
  <1>1. DOMAIN s = 1..Len(s) /\ Len(s) \in Nat
    OBVIOUS
  <1>2. IsFiniteSet(DOMAIN s)
    BY <1>1, FS_Interval
  <1>3. IsFiniteSet({i \in DOMAIN s : s[i] \in A})
    BY <1>2, FS_Subset
  <1>4. s = <<>> => {i \in DOMAIN s : s[i] \in A} = {}
    BY <1>1
  <1> QED BY <1>3, <1>4, FS_CardinalityType, FS_EmptySet DEF Count

(* One more at the end. *)
LEMMA CountAppend ==
  ASSUME NEW S, NEW s \in Seq(S), NEW x \in S, NEW A
  PROVE  Count(A, Append(s, x)) = Count(A, s) + (IF x \in A THEN 1 ELSE 0)
  <1> DEFINE I == {i \in DOMAIN s : s[i] \in A}
             J == {i \in DOMAIN Append(s, x) : Append(s, x)[i] \in A}
             n == Len(s) + 1
  <1>1. DOMAIN s = 1..Len(s) /\ Len(s) \in Nat /\ DOMAIN Append(s, x) = 1..n /\ n \notin I /\ n \in 1..n
    OBVIOUS
  <1>2. Append(s, x)[n] = x /\ \A i \in 1..Len(s) : Append(s, x)[i] = s[i]
    OBVIOUS
  <1>3. \A i \in 1..n : i \in 1..Len(s) \/ i = n
    BY <1>1
  <1>3a. \A i \in 1..Len(s) : i \in 1..n
    BY <1>1
  <1>4. IsFiniteSet(I) /\ Count(A, s) = Cardinality(I) /\ Cardinality(I) \in Nat
    BY CountType DEF Count
  <1>5. Count(A, Append(s, x)) = Cardinality(J)
    BY DEF Count
  <1> HIDE DEF n
  <1>6. J = IF x \in A THEN I \cup {n} ELSE I
    BY <1>1, <1>2, <1>3, <1>3a
  <1>7. Cardinality(I \cup {n}) = Cardinality(I) + 1
    BY <1>1, <1>4, FS_AddElement
  <1> HIDE DEF I, J
  <1> QED BY <1>4, <1>5, <1>6, <1>7

(* What a sequence has after its first n. *)
Follows(t, s, n) == n <= Len(s) /\ Len(t) = Len(s) - n /\ \A i \in 1..Len(t) : t[i] = s[i + n]

(* The first n of a sequence and the rest of it. *)
LEMMA CountRest ==
  ASSUME NEW S, NEW s \in Seq(S), NEW n \in Nat, NEW t \in Seq(S), Follows(t, s, n), NEW A
  PROVE  FirstCount(A, s, n) \in Nat /\ Count(A, s) = FirstCount(A, s, n) + Count(A, t)
  <1> DEFINE I == {i \in DOMAIN s : s[i] \in A}
             F == {i \in 1..n : s[i] \in A}
             G == I \ F
             J == {i \in DOMAIN t : t[i] \in A}
             f == [i \in J |-> i + n]
  <1>0. n <= Len(s) /\ Len(t) = Len(s) - n /\ \A i \in 1..Len(t) : t[i] = s[i + n]
    BY DEF Follows
  <1>1. DOMAIN s = 1..Len(s) /\ Len(s) \in Nat /\ DOMAIN t = 1..Len(t) /\ Len(t) \in Nat
    OBVIOUS
  <1>2. IsFiniteSet(I) /\ IsFiniteSet(J) /\ Count(A, s) = Cardinality(I) /\ Count(A, t) = Cardinality(J)
        /\ Cardinality(I) \in Nat /\ Cardinality(J) \in Nat
    BY CountType DEF Count
  <1>3. F \subseteq I
    BY <1>0, <1>1
  <1>4. IsFiniteSet(F) /\ I \cap F = F /\ Cardinality(F) \in Nat
    BY <1>2, <1>3, FS_Subset, FS_CardinalityType
  <1>5. Cardinality(G) = Cardinality(I) - Cardinality(F)
    <2> HIDE DEF I, F
    <2>1. Cardinality(I \ F) = Cardinality(I) - Cardinality(I \cap F)
      BY <1>2, FS_Difference
    <2> QED BY <1>4, <2>1
  <1>6. Cardinality(G) = Cardinality(J)
    <2>1. \A i \in J : i + n \in G
      <3> SUFFICES ASSUME NEW i \in J
                   PROVE  i + n \in G
        OBVIOUS
      <3>1. i \in 1..Len(t) /\ i + n \in 1..Len(s) /\ i + n \notin 1..n /\ t[i] = s[i + n] /\ t[i] \in A
        BY <1>0, <1>1
      <3> QED BY <1>0, <1>1, <3>1
    <2>2. \A i \in G : i - n \in J /\ (i - n) + n = i
      <3> SUFFICES ASSUME NEW i \in G
                   PROVE  i - n \in J /\ (i - n) + n = i
        OBVIOUS
      <3>1. i \in 1..Len(s) /\ i \notin 1..n /\ s[i] \in A
        BY <1>0, <1>1
      <3>2. i - n \in 1..Len(t) /\ (i - n) + n = i
        BY <1>0, <1>1, <3>1
      <3>3. t[i - n] = s[i]
        BY <1>0, <3>2
      <3> QED BY <1>1, <3>1, <3>2, <3>3
    <2>3. \A i, j \in J : i + n = j + n => i = j
      BY <1>0, <1>1
    <2> HIDE DEF J, G
    <2>4. f \in [J -> G] /\ \A i \in J : f[i] = i + n
      BY <2>1
    <2> HIDE DEF f
    <2>5. IsFiniteSet(J) /\ \A i \in G : \E j \in J : f[j] = i
      BY <1>2, <2>2, <2>4 DEF J
    <2>6. \A i, j \in J : f[i] = f[j] => i = j
      BY <2>3, <2>4
    <2> QED BY <2>4, <2>5, <2>6, SameSize
  <1> HIDE DEF F, G, I, J
  <1>7. Count(A, s) = Cardinality(F) + Count(A, t)
    BY <1>2, <1>4, <1>5, <1>6
  <1> QED BY <1>4, <1>7 DEF F, FirstCount

(* The head of a sequence and its tail. *)
LEMMA CountTail ==
  ASSUME NEW S, NEW s \in Seq(S), s # <<>>, NEW A
  PROVE  Count(A, s) = Count(A, Tail(s)) + (IF Head(s) \in A THEN 1 ELSE 0)
  <1> DEFINE F == {i \in 1..1 : s[i] \in A}
  <1>1. Tail(s) \in Seq(S) /\ Len(Tail(s)) = Len(s) - 1 /\ 1 <= Len(s) /\ Head(s) = s[1]
    OBVIOUS
  <1>2. \A i \in 1..Len(Tail(s)) : Tail(s)[i] = s[i + 1]
    OBVIOUS
  <1> DEFINE t == Tail(s)
             one == 1
  <1>3. Count(A, s) = FirstCount(A, s, one) + Count(A, t)
    <2>1. one \in Nat /\ t \in Seq(S)
      BY <1>1
    <2>2. Follows(t, s, one)
      BY <1>1, <1>2 DEF Follows
    <2> HIDE DEF t, one
    <2> QED BY <2>1, <2>2, CountRest
  <1>4. F = IF Head(s) \in A THEN {1} ELSE {}
    BY <1>1
  <1>5. Count(A, Tail(s)) \in Nat
    BY <1>1, CountType
  <1>6. Cardinality(F) = IF Head(s) \in A THEN 1 ELSE 0
    <2> HIDE DEF F
    <2> QED BY <1>4, FS_EmptySet, FS_Singleton
  <1>7. Count(A, s) = Cardinality(F) + Count(A, Tail(s))
    BY <1>3 DEF FirstCount
  <1> HIDE DEF F
  <1> QED BY <1>5, <1>6, <1>7

(* One sequence after another. *)
LEMMA CountBoth ==
  ASSUME NEW S, NEW s \in Seq(S), NEW t \in Seq(S), NEW A
  PROVE  Count(A, s \o t) = Count(A, s) + Count(A, t) /\ Len(s \o t) = Len(s) + Len(t)
  <1> DEFINE u == s \o t
             F == {i \in 1..Len(s) : u[i] \in A}
  <1>1. /\ u \in Seq(S) /\ Len(u) = Len(s) + Len(t) /\ Len(s) \in Nat /\ Len(t) \in Nat
        /\ \A i \in 1..Len(s) : u[i] = s[i]
    OBVIOUS
  <1>2. \A i \in 1..Len(s) : u[i] = s[i]
    OBVIOUS
  <1>3. \A j \in 1..Len(t) : u[j + Len(s)] = t[j]
    OBVIOUS
  <1> HIDE DEF u
  <1>4. Count(A, u) = Cardinality(F) + Count(A, t)
    <2> DEFINE n == Len(s)
    <2>1. n \in Nat /\ u \in Seq(S)
      BY <1>1
    <2>2. Follows(t, u, n)
      BY <1>1, <1>3 DEF Follows
    <2>3. Count(A, u) = FirstCount(A, u, n) + Count(A, t)
      <3> HIDE DEF n, F
      <3> QED BY <2>1, <2>2, CountRest
    <2> QED BY <2>3 DEF FirstCount
  <1>5. F = {i \in DOMAIN s : s[i] \in A}
    BY <1>1, <1>2
  <1>6. Count(A, s \o t) = Count(A, s) + Count(A, t)
    BY <1>4, <1>5 DEF Count, u
  <1> QED BY <1>1, <1>6 DEF u

(* A sequence is as long as it has elements. *)
LEMMA CountAll ==
  ASSUME NEW S, NEW s \in Seq(S)
  PROVE  Count(S, s) = Len(s)
  <1> DEFINE I == {i \in DOMAIN s : s[i] \in S}
  <1>1. Len(s) \in Nat /\ I = 1..Len(s)
    OBVIOUS
  <1>2. Count(S, s) = Cardinality(I)
    BY DEF Count
  <1> HIDE DEF I
  <1>3. Cardinality(1..Len(s)) = Len(s)
    BY <1>1, FS_Interval
  <1> QED BY <1>1, <1>2, <1>3

(* One element is replaced. *)
LEMMA CountReplaced ==
  ASSUME NEW S, NEW s \in Seq(S), NEW t \in Seq(S), DOMAIN t = DOMAIN s, NEW k \in DOMAIN s,
         \A i \in DOMAIN s : i # k => t[i] = s[i], NEW A
  PROVE  Count(A, t) = Count(A, s) - (IF s[k] \in A THEN 1 ELSE 0) + (IF t[k] \in A THEN 1 ELSE 0)
  <1> DEFINE I == {i \in DOMAIN s : s[i] \in A}
             J == {i \in DOMAIN t : t[i] \in A}
  <1>1. /\ IsFiniteSet(I) /\ Count(A, s) = Cardinality(I) /\ Cardinality(I) \in Nat
        /\ IsFiniteSet(J) /\ Count(A, t) = Cardinality(J) /\ Cardinality(J) \in Nat
    BY CountType DEF Count
  <1>2. I \ {k} = J \ {k}
    OBVIOUS
  <1>3. k \in I <=> s[k] \in A
    OBVIOUS
  <1>4. k \in J <=> t[k] \in A
    OBVIOUS
  <1>5. Cardinality(I \ {k}) = IF k \in I THEN Cardinality(I) - 1 ELSE Cardinality(I)
    BY <1>1, FS_RemoveElement
  <1>6. Cardinality(J \ {k}) = IF k \in J THEN Cardinality(J) - 1 ELSE Cardinality(J)
    BY <1>1, FS_RemoveElement
  <1> DEFINE L == I \ {k}
  <1>7. /\ Cardinality(L) = IF s[k] \in A THEN Cardinality(I) - 1 ELSE Cardinality(I)
        /\ Cardinality(L) = IF t[k] \in A THEN Cardinality(J) - 1 ELSE Cardinality(J)
    <2> HIDE DEF I, J
    <2> QED BY <1>2, <1>3, <1>4, <1>5, <1>6
  <1> HIDE DEF I, J, L
  <1> QED BY <1>1, <1>7

--------------------------------------------------------------------------------
(* What a total has apart from one of its terms. *)
Apart(f, x) == UNION {{y} \X (1..f[y]) : y \in DOMAIN f \ {x}}

(* A total is finite, and a sum. *)
LEMMA TotalSplits ==
  ASSUME NEW c, NEW D, IsFiniteSet(D), NEW f \in [D -> Nat], NEW x \in D
  PROVE  /\ Cardinality(Apart(f, x)) \in Nat
         /\ Dead(c)!Total(f) = Cardinality(Apart(f, x)) + f[x]
  <1> DEFINE T == UNION {{y} \X (1..f[y]) : y \in DOMAIN f}
             A == Apart(f, x)
             X == {x} \X (1..f[x])
             g == [i \in 1..f[x] |-> <<x, i>>]
             P == {{y} \X (1..f[y]) : y \in DOMAIN f}
             h == [y \in D |-> {y} \X (1..f[y])]
  <1>1. DOMAIN f = D /\ f[x] \in Nat
    OBVIOUS
  <1>2. IsFiniteSet(P)
    <2>1. h \in Surjection(D, P)
      BY <1>1 DEF Surjection
    <2> QED BY <2>1, FS_Surjection
  <1>3. \A Q \in P : IsFiniteSet(Q)
    <2> SUFFICES ASSUME NEW y \in D
                 PROVE  IsFiniteSet({y} \X (1..f[y]))
      BY <1>1
    <2> DEFINE n == f[y]
    <2>0. n \in Int /\ 1 \in Int
      OBVIOUS
    <2>a. IsFiniteSet(1..n)
      <3> HIDE DEF n
      <3> QED BY <2>0, FS_Interval
    <2>1. IsFiniteSet({y}) /\ IsFiniteSet(1..f[y])
      BY <2>a, FS_Singleton
    <2> QED BY <2>1, FS_Product
  <1>4. IsFiniteSet(T)
    BY <1>2, <1>3, FS_UNION
  <1>5. T = A \cup X
    BY <1>1 DEF Apart
  <1>6. A \cap X = {}
    BY <1>1 DEF Apart
  <1>7. IsFiniteSet(A) /\ IsFiniteSet(X)
    BY <1>4, <1>5, FS_Subset
  <1>8. Cardinality(X) = f[x]
    <2>1. IsFiniteSet(1..f[x]) /\ Cardinality(1..f[x]) = f[x]
      BY <1>1, FS_Interval
    <2>2. g \in [1..f[x] -> X] /\ \A i, j \in 1..f[x] : g[i] = g[j] => i = j
      OBVIOUS
    <2>3. \A p \in X : \E i \in 1..f[x] : g[i] = p
      OBVIOUS
    <2> HIDE DEF g, X
    <2> QED BY <2>1, <2>2, <2>3, SameSize
  <1>9. Dead(c)!Total(f) = Cardinality(T)
    BY <1>4, DeadCardinality DEF Dead!Total
  <1> HIDE DEF T, A, X
  <1>10. Cardinality(T) = Cardinality(A) + Cardinality(X) - Cardinality(A \cap X)
    BY <1>5, <1>7, FS_Union
  <1>11. Cardinality(A) \in Nat /\ Cardinality(A \cap X) = 0
    BY <1>6, <1>7, FS_EmptySet, FS_CardinalityType
  <1> QED BY <1>1, <1>8, <1>9, <1>10, <1>11 DEF A

(* Two functions that agree but at x. *)
SameBut(f, g, D, x) == \A y \in D : y # x => g[y] = f[y]

(* A total changes as its term does. *)
LEMMA TotalChanges ==
  ASSUME NEW c, NEW D, IsFiniteSet(D), NEW f \in [D -> Nat], NEW g \in [D -> Nat], NEW x \in D,
         SameBut(f, g, D, x)
  PROVE  /\ Dead(c)!Total(f) \in Nat /\ Dead(c)!Total(g) \in Nat
         /\ Dead(c)!Total(g) = Dead(c)!Total(f) - f[x] + g[x]
  <1>1. Apart(f, x) = Apart(g, x)
    <2>1. \A y \in D \ {x} : {y} \X (1..f[y]) = {y} \X (1..g[y])
      BY DEF SameBut
    <2>2. {{y} \X (1..f[y]) : y \in D \ {x}} = {{y} \X (1..g[y]) : y \in D \ {x}}
      BY <2>1
    <2>3. DOMAIN f = D /\ DOMAIN g = D
      OBVIOUS
    <2> QED BY <2>2, <2>3 DEF Apart
  <1>2. /\ Cardinality(Apart(f, x)) \in Nat /\ Dead(c)!Total(f) = Cardinality(Apart(f, x)) + f[x]
        /\ Cardinality(Apart(g, x)) \in Nat /\ Dead(c)!Total(g) = Cardinality(Apart(g, x)) + g[x]
    BY TotalSplits
  <1> QED BY <1>1, <1>2

--------------------------------------------------------------------------------
(* A configuration whose commands can be counted. *)
TallyConfig(c) == DeadConfig(c) /\ IsFiniteSet(c.Commands)

(* The letters of a message that have a payload, in a queue and in a hand, and *)
(* the deliveries a command still holds.                                       *)
LettersOf(c, m) == {l \in DeadMessages(c) : l.ok /\ l.m = m}
HandsOf(c, m) == {h \in InHands(c) : h.e \in LettersOf(c, m)}
Holding(c) == {h \in InHands(c) : h.held}

(* What a command holds and reports, and what it has still to send. *)
InReport(c, rec) == Count(Holding(c), rec.hand) + rec.done
ToSend(c, m, rec) ==
  Count(HandsOf(c, m), rec.hand)
    - (IF rec.pc = "ack" /\ Head(rec.hand) \in HandsOf(c, m) THEN 1 ELSE 0)

(* The counters, and where a command has something in hand. *)
CountersTyped(c) ==
  /\ deaths \in [c.Msgs -> Nat] /\ replays \in [c.Msgs -> Nat]
  /\ faults \in Nat /\ expiries \in Nat /\ cancels \in Nat
  /\ \A k \in c.Commands : /\ cmd[k].pc = "ack" => cmd[k].hand # <<>>
                           /\ cmd[k].pc = "new" => cmd[k].done = 0

(* The reports add up. *)
Reported(c) ==
  Dead(c)!Total(deaths) + 1 =
    Len(dead) + Len(limbo) + Dead(c)!Total([k \in c.Commands |-> InReport(c, cmd[k])])

(* Whatever can still be replayed was published, or is there once more after a *)
(* fault, an expired lease or a cancelled command.                             *)
Budget(m) == deaths[m] + faults + expiries + cancels
Queued(c, m) == Count(LettersOf(c, m), dead) + Count(LettersOf(c, m), limbo)
Owed(c, m) ==
  replays[m] + Queued(c, m) + Dead(c)!Total([k \in c.Commands |-> ToSend(c, m, cmd[k])]) <= Budget(m)

TallyInv(c) == CountersTyped(c) /\ Reported(c) /\ \A m \in c.Msgs : Owed(c, m)

(* The numbers are natural. *)
LEMMA TallyTypes ==
  ASSUME NEW c, NEW rec \in CommandStates(c), rec.pc = "ack" => rec.hand # <<>>, NEW m
  PROVE  InReport(c, rec) \in Nat /\ ToSend(c, m, rec) \in Nat
  <1> DEFINE A == HandsOf(c, m)
  <1>1. rec.hand \in Seq(InHands(c)) /\ rec.done \in Nat
    BY DEF CommandStates
  <1>2. Count(Holding(c), rec.hand) \in Nat /\ Count(A, rec.hand) \in Nat
    BY <1>1, CountType
  <1>3. rec.hand # <<>> => /\ Count(A, Tail(rec.hand)) \in Nat
                           /\ Count(A, rec.hand) = Count(A, Tail(rec.hand)) + (IF Head(rec.hand) \in A THEN 1 ELSE 0)
    <2> SUFFICES ASSUME rec.hand # <<>>
                 PROVE  /\ Count(A, Tail(rec.hand)) \in Nat
                        /\ Count(A, rec.hand) = Count(A, Tail(rec.hand)) + (IF Head(rec.hand) \in A THEN 1 ELSE 0)
      OBVIOUS
    <2>1. Tail(rec.hand) \in Seq(InHands(c))
      BY <1>1
    <2> QED BY <1>1, <2>1, CountType, CountTail
  <1> HIDE DEF A
  <1> QED BY <1>1, <1>2, <1>3 DEF InReport, ToSend, A

(* A step of one command that moves what it holds and reports to the queues. *)
LEMMA ReportMoves ==
  ASSUME NEW c, TallyConfig(c), DeadInv(c), TallyInv(c), DeadInv(c)', CountersTyped(c)',
         NEW k \in c.Commands, \A q \in c.Commands : q # k => cmd'[q] = cmd[q]
  PROVE  /\ InReport(c, cmd'[k]) + Len(dead') + Len(limbo') = InReport(c, cmd[k]) + Len(dead) + Len(limbo)
         /\ deaths' = deaths
         => Reported(c)'
  <1> DEFINE f == [q \in c.Commands |-> InReport(c, cmd[q])]
             g == [q \in c.Commands |-> InReport(c, cmd'[q])]
  <1>1. f \in [c.Commands -> Nat] /\ g \in [c.Commands -> Nat]
    <2>1. \A q \in c.Commands : InReport(c, cmd[q]) \in Nat
      BY TallyTypes DEF TallyInv, CountersTyped, DeadInv, CommandsTyped
    <2>2. \A q \in c.Commands : InReport(c, cmd'[q]) \in Nat
      BY TallyTypes DEF CountersTyped, DeadInv, CommandsTyped
    <2> QED BY <2>1, <2>2
  <1>2. SameBut(f, g, c.Commands, k)
    BY DEF SameBut
  <1>3. f[k] = InReport(c, cmd[k]) /\ g[k] = InReport(c, cmd'[k])
    OBVIOUS
  <1>4. Len(dead) \in Nat /\ Len(limbo) \in Nat /\ Len(dead') \in Nat /\ Len(limbo') \in Nat
    BY DEF DeadInv, QueuesTyped
  <1>5. Dead(c)!Total(deaths) + 1 = Len(dead) + Len(limbo) + Dead(c)!Total(f)
    BY DEF TallyInv, Reported
  <1> HIDE DEF f, g
  <1>6. /\ Dead(c)!Total(f) \in Nat /\ Dead(c)!Total(g) \in Nat
        /\ Dead(c)!Total(g) = Dead(c)!Total(f) - f[k] + g[k]
    <2>1. IsFiniteSet(c.Commands)
      BY DEF TallyConfig
    <2> DEFINE D == c.Commands
    <2>2. IsFiniteSet(D) /\ f \in [D -> Nat] /\ g \in [D -> Nat] /\ k \in D /\ SameBut(f, g, D, k)
      BY <1>1, <1>2, <2>1
    <2> HIDE DEF D
    <2> QED BY <2>2, TotalChanges
  <1> SUFFICES ASSUME InReport(c, cmd'[k]) + Len(dead') + Len(limbo') = InReport(c, cmd[k]) + Len(dead) + Len(limbo),
                      deaths' = deaths
               PROVE  Reported(c)'
    OBVIOUS
  <1>7. Dead(c)!Total(deaths') + 1 = Len(dead') + Len(limbo') + Dead(c)!Total(g)
    BY <1>1, <1>3, <1>4, <1>5, <1>6, SMTT(40)
  <1> QED BY <1>7 DEF Reported, g

LEMMA OwedMoves ==
  ASSUME NEW c, TallyConfig(c), DeadInv(c), TallyInv(c), DeadInv(c)', CountersTyped(c)',
         NEW k \in c.Commands, \A q \in c.Commands : q # k => cmd'[q] = cmd[q], NEW m \in c.Msgs,
         replays'[m] + Queued(c, m)' + ToSend(c, m, cmd'[k]) + Budget(m)
           <= replays[m] + Queued(c, m) + ToSend(c, m, cmd[k]) + Budget(m)'
  PROVE  Owed(c, m)'
  <1> DEFINE f == [q \in c.Commands |-> ToSend(c, m, cmd[q])]
             g == [q \in c.Commands |-> ToSend(c, m, cmd'[q])]
  <1>1. f \in [c.Commands -> Nat] /\ g \in [c.Commands -> Nat]
    <2>1. \A q \in c.Commands : ToSend(c, m, cmd[q]) \in Nat
      BY TallyTypes DEF TallyInv, CountersTyped, DeadInv, CommandsTyped
    <2>2. \A q \in c.Commands : ToSend(c, m, cmd'[q]) \in Nat
      BY TallyTypes DEF CountersTyped, DeadInv, CommandsTyped
    <2> QED BY <2>1, <2>2
  <1>2. SameBut(f, g, c.Commands, k)
    BY DEF SameBut
  <1>3. f[k] = ToSend(c, m, cmd[k]) /\ g[k] = ToSend(c, m, cmd'[k])
    OBVIOUS
  <1>4. Queued(c, m) \in Nat /\ Queued(c, m)' \in Nat
    <2> DEFINE L == LettersOf(c, m)
    <2>1. /\ dead \in Seq(DeadMessages(c)) /\ limbo \in Seq(DeadMessages(c))
          /\ dead' \in Seq(DeadMessages(c)) /\ limbo' \in Seq(DeadMessages(c))
      BY DEF DeadInv, QueuesTyped
    <2> HIDE DEF L
    <2>2. Count(L, dead) \in Nat /\ Count(L, limbo) \in Nat /\ Count(L, dead') \in Nat /\ Count(L, limbo') \in Nat
      BY <2>1, CountType
    <2> QED BY <2>2 DEF Queued, L
  <1>5. replays[m] + Queued(c, m) + Dead(c)!Total(f) <= Budget(m)
    BY DEF TallyInv, Owed
  <1> HIDE DEF f, g
  <1>6. /\ Dead(c)!Total(f) \in Nat /\ Dead(c)!Total(g) \in Nat
        /\ Dead(c)!Total(g) = Dead(c)!Total(f) - f[k] + g[k]
    <2>1. IsFiniteSet(c.Commands)
      BY DEF TallyConfig
    <2> QED BY <1>1, <1>2, <2>1, TotalChanges
  <1>7. replays[m] \in Nat /\ replays'[m] \in Nat /\ Budget(m) \in Nat /\ Budget(m)' \in Nat
    BY SMTT(40) DEF TallyInv, CountersTyped, Budget
  <1>8. replays'[m] + Queued(c, m)' + Dead(c)!Total(g) <= Budget(m)'
    BY <1>1, <1>3, <1>4, <1>5, <1>6, <1>7
  <1> QED BY <1>8 DEF Owed, g

(* One more letter in a queue. *)
LEMMA LetterAppended ==
  ASSUME NEW c, NEW s \in Seq(DeadMessages(c)), NEW l \in DeadMessages(c), NEW m
  PROVE  /\ Len(Append(s, l)) = Len(s) + 1 /\ Len(s) \in Nat
         /\ Count(LettersOf(c, m), s) \in Nat
         /\ Count(LettersOf(c, m), Append(s, l)) =
              Count(LettersOf(c, m), s) + (IF l \in LettersOf(c, m) THEN 1 ELSE 0)
  <1>1. Len(Append(s, l)) = Len(s) + 1 /\ Len(s) \in Nat
    OBVIOUS
  <1> QED BY <1>1, CountType, CountAppend

(* The delivery a command is at, as a number: 1 when it is held; when it is a letter of m. *)
One(b) == IF b THEN 1 ELSE 0
Held1(k) == One(Head(cmd[k].hand).held)
Letter1(c, m, k) == One(Head(cmd[k].hand).e \in LettersOf(c, m))

(* It goes back to a queue b times. *)
GoesBack(k, b) ==
  \/ b = 0 /\ dead' = dead /\ limbo' = limbo
  \/ b = 1 /\ dead' = Append(dead, Head(cmd[k].hand).e) /\ limbo' = limbo
  \/ b = 1 /\ limbo' = Append(limbo, Head(cmd[k].hand).e) /\ dead' = dead

(* What goes back is in the queues. *)
LEMMA BackQueued ==
  ASSUME NEW c, QueuesTyped(c), NEW k, Head(cmd[k].hand).e \in DeadMessages(c), NEW b, GoesBack(k, b), NEW m
  PROVE  /\ Len(dead') + Len(limbo') = Len(dead) + Len(limbo) + b /\ b \in 0..1
         /\ Queued(c, m) \in Nat /\ Queued(c, m)' = Queued(c, m) + (IF b = 1 THEN Letter1(c, m, k) ELSE 0)
         /\ dead' \in Seq(DeadMessages(c)) /\ limbo' \in Seq(DeadMessages(c))
  <1> DEFINE e == Head(cmd[k].hand).e
             L == LettersOf(c, m)
             x == IF e \in L THEN 1 ELSE 0
  <1>1. dead \in Seq(DeadMessages(c)) /\ limbo \in Seq(DeadMessages(c)) /\ e \in DeadMessages(c)
    BY DEF QueuesTyped
  <1>2. /\ Queued(c, m) = Count(L, dead) + Count(L, limbo)
        /\ Queued(c, m)' = Count(L, dead') + Count(L, limbo')
        /\ Letter1(c, m, k) = x
    BY DEF Queued, Letter1, One
  <1>3. \/ b = 0 /\ dead' = dead /\ limbo' = limbo
        \/ b = 1 /\ dead' = Append(dead, e) /\ limbo' = limbo
        \/ b = 1 /\ limbo' = Append(limbo, e) /\ dead' = dead
    BY DEF GoesBack
  <1> HIDE DEF e
  <1>4. Append(dead, e) \in Seq(DeadMessages(c)) /\ Append(limbo, e) \in Seq(DeadMessages(c))
    BY <1>1
  <1>5. /\ Len(dead) \in Nat /\ Len(limbo) \in Nat /\ Count(L, dead) \in Nat /\ Count(L, limbo) \in Nat
        /\ Len(Append(dead, e)) = Len(dead) + 1 /\ Len(Append(limbo, e)) = Len(limbo) + 1
        /\ Count(L, Append(dead, e)) = Count(L, dead) + x
        /\ Count(L, Append(limbo, e)) = Count(L, limbo) + x
    BY <1>1, LetterAppended
  <1>6. x \in 0..1
    OBVIOUS
  <1> HIDE DEF L, x
  <1>7. CASE b = 0 /\ dead' = dead /\ limbo' = limbo
    BY <1>1, <1>2, <1>5, <1>7
  <1>8. CASE b = 1 /\ dead' = Append(dead, e) /\ limbo' = limbo
    <2>1. Count(L, dead') = Count(L, dead) + x /\ Len(dead') = Len(dead) + 1
      BY <1>5, <1>8
    <2> QED BY <1>1, <1>2, <1>4, <1>5, <1>6, <1>8, <2>1
  <1>9. CASE b = 1 /\ limbo' = Append(limbo, e) /\ dead' = dead
    <2>1. Count(L, limbo') = Count(L, limbo) + x /\ Len(limbo') = Len(limbo) + 1
      BY <1>5, <1>9
    <2> QED BY <1>1, <1>2, <1>4, <1>5, <1>6, <1>9, <2>1
  <1> QED BY <1>3, <1>7, <1>8, <1>9

(* What a command reports and has to send when it has settled a delivery. *)
LEMMA SettledCounts ==
  ASSUME NEW c, NEW rec \in CommandStates(c), NEW new \in CommandStates(c), rec.hand # <<>>,
         new.hand = Tail(rec.hand), new.pc = "next", NEW r \in Nat, new.done = rec.done + r, NEW m
  PROVE  /\ Head(rec.hand) \in InHands(c) /\ Head(rec.hand).e \in DeadMessages(c)
         /\ InReport(c, rec) \in Nat
         /\ InReport(c, new) = InReport(c, rec) - One(Head(rec.hand).held) + r
         /\ ToSend(c, m, new) \in Nat
         /\ ToSend(c, m, rec) =
              ToSend(c, m, new) + (IF rec.pc = "ack" THEN 0 ELSE One(Head(rec.hand).e \in LettersOf(c, m)))
  <1> DEFINE h == rec.hand
             d == Head(h)
             A == HandsOf(c, m)
             H == Holding(c)
  <1>1. h \in Seq(InHands(c)) /\ rec.done \in Nat
    BY DEF CommandStates
  <1>2. Tail(h) \in Seq(InHands(c)) /\ d \in InHands(c)
    BY <1>1
  <1>3. /\ Count(A, h) = Count(A, Tail(h)) + (IF d \in A THEN 1 ELSE 0) /\ Count(A, Tail(h)) \in Nat
        /\ Count(H, h) = Count(H, Tail(h)) + (IF d \in H THEN 1 ELSE 0) /\ Count(H, Tail(h)) \in Nat
    BY <1>1, <1>2, CountTail, CountType
  <1>4. /\ InReport(c, rec) = Count(H, h) + rec.done /\ InReport(c, new) = Count(H, Tail(h)) + (rec.done + r)
        /\ ToSend(c, m, rec) = Count(A, h) - (IF rec.pc = "ack" /\ d \in A THEN 1 ELSE 0)
        /\ ToSend(c, m, new) = Count(A, Tail(h)) - (IF FALSE THEN 1 ELSE 0)
    BY DEF InReport, ToSend
  <1> HIDE DEF d, h
  <1>5. d.e \in DeadMessages(c)
    BY <1>2 DEF InHands
  <1>6. One(d.held) = (IF d \in H THEN 1 ELSE 0) /\ One(d.e \in LettersOf(c, m)) = (IF d \in A THEN 1 ELSE 0)
    BY <1>2 DEF Holding, HandsOf, One
  <1> HIDE DEF A, H
  <1>7. InReport(c, rec) \in Nat /\ InReport(c, new) = InReport(c, rec) - One(d.held) + r
    BY <1>1, <1>3, <1>4, <1>6
  <1>8. /\ ToSend(c, m, new) \in Nat
        /\ ToSend(c, m, rec) = ToSend(c, m, new) + (IF rec.pc = "ack" THEN 0 ELSE One(d.e \in LettersOf(c, m)))
    BY <1>3, <1>4, <1>6
  <1> QED BY <1>2, <1>5, <1>7, <1>8 DEF d, h

(* A delivery is settled: it goes back to a queue or is reported, unless its lease *)
(* is over, and what was replayed goes back only after a fault.                    *)
LEMMA TallySettles ==
  ASSUME NEW c, TallyConfig(c), DeadInv(c), TallyInv(c), DeadInv(c)',
         NEW k \in c.Commands, cmd[k].hand # <<>>, NEW count, Dead(c)!NextOne(k, count),
         UNCHANGED <<deaths, replays, expiries, cancels>>,
         NEW v \in 0..1, faults' = faults + v, NEW b, GoesBack(k, b), NEW r, r = One(count = "done"),
         Held1(k) = b + r, cmd[k].pc = "ack" => b <= v
  PROVE  TallyInv(c)'
  <1>1. CommandsTyped(c) /\ cmd[k] \in CommandStates(c) /\ CountersTyped(c) /\ cmd[k].done \in Nat /\ QueuesTyped(c)
    BY DEF DeadInv, CommandsTyped, TallyInv, CommandStates
  <1>2. /\ cmd' \in [c.Commands -> CommandStates(c)] /\ cmd'[k] \in CommandStates(c)
        /\ cmd'[k].hand = Tail(cmd[k].hand) /\ cmd'[k].pc = "next"
        /\ cmd'[k].done = IF count = "done" THEN cmd[k].done + 1 ELSE cmd[k].done
        /\ \A q \in c.Commands : q # k => cmd'[q] = cmd[q]
    BY <1>1, NextOneIs
  <1>3. r \in Nat /\ cmd'[k].done = cmd[k].done + r
    BY <1>1, <1>2 DEF One
  <1>4. CountersTyped(c)'
    <2>1. \A q \in c.Commands : /\ cmd'[q].pc = "ack" => cmd'[q].hand # <<>>
                                /\ cmd'[q].pc = "new" => cmd'[q].done = 0
      BY <1>1, <1>2 DEF CountersTyped
    <2>2. deaths' \in [c.Msgs -> Nat] /\ replays' \in [c.Msgs -> Nat] /\ expiries' \in Nat /\ cancels' \in Nat
      BY <1>1 DEF CountersTyped
    <2>3. faults' \in Nat
      BY <1>1 DEF CountersTyped
    <2> QED BY <2>1, <2>2, <2>3 DEF CountersTyped
  <1>5. \A m : /\ Head(cmd[k].hand).e \in DeadMessages(c)
               /\ InReport(c, cmd[k]) \in Nat
               /\ InReport(c, cmd'[k]) = InReport(c, cmd[k]) - Held1(k) + r
               /\ ToSend(c, m, cmd'[k]) \in Nat
               /\ ToSend(c, m, cmd[k]) = ToSend(c, m, cmd'[k]) + (IF cmd[k].pc = "ack" THEN 0 ELSE Letter1(c, m, k))
    BY <1>1, <1>2, <1>3, SettledCounts, SMTT(40) DEF Held1, Letter1
  <1>6. \A m : /\ Len(dead') + Len(limbo') = Len(dead) + Len(limbo) + b /\ b \in 0..1
               /\ Queued(c, m) \in Nat /\ Queued(c, m)' = Queued(c, m) + (IF b = 1 THEN Letter1(c, m, k) ELSE 0)
    BY <1>1, <1>5, BackQueued
  <1>7. Reported(c)'
    <2> DEFINE x == InReport(c, cmd[k])
               y == InReport(c, cmd'[k])
               a == Len(dead) + Len(limbo)
               z == Len(dead') + Len(limbo')
    <2>1. x \in Nat /\ b \in 0..1 /\ y = x - (b + r) + r /\ z = a + b /\ a \in Nat
      BY <1>1, <1>5, <1>6 DEF QueuesTyped
    <2>2. y + z = x + a
      <3> HIDE DEF x, y, a, z
      <3> QED BY <1>3, <2>1
    <2>3. /\ Len(dead) \in Nat /\ Len(limbo) \in Nat /\ Len(dead') \in Nat /\ Len(limbo') \in Nat
      BY DEF DeadInv, QueuesTyped
    <2>4. y \in Int
      <3> HIDE DEF x, y, a, z
      <3> QED BY <1>3, <2>1
    <2>5. InReport(c, cmd'[k]) + Len(dead') + Len(limbo') = InReport(c, cmd[k]) + Len(dead) + Len(limbo)
      BY <2>1, <2>2, <2>3, <2>4
    <2> QED BY <1>2, <1>4, <2>5, ReportMoves
  <1>8. ASSUME NEW m \in c.Msgs PROVE Owed(c, m)'
    <2> DEFINE x == ToSend(c, m, cmd[k])
               y == ToSend(c, m, cmd'[k])
               l == Letter1(c, m, k)
               q == Queued(c, m)
               w == Queued(c, m)'
    <2>1. y \in Nat /\ x = y + (IF cmd[k].pc = "ack" THEN 0 ELSE l) /\ q \in Nat /\ b \in 0..1
          /\ w = q + (IF b = 1 THEN l ELSE 0)
      BY <1>5, <1>6
    <2>2. l \in 0..1
      BY DEF Letter1, One
    <2>3. replays[m] \in Nat /\ deaths[m] \in Nat /\ faults \in Nat /\ expiries \in Nat /\ cancels \in Nat
      BY <1>1 DEF CountersTyped
    <2>4. Budget(m) \in Nat /\ Budget(m)' = Budget(m) + v /\ replays'[m] = replays[m]
      <3> DEFINE n == deaths[m]
      <3>1. Budget(m) = n + faults + expiries + cancels /\ Budget(m)' = n + (faults + v) + expiries + cancels
        BY DEF Budget
      <3>2. n \in Int /\ faults \in Int /\ expiries \in Int /\ cancels \in Int /\ v \in Int
        BY <2>3
      <3> HIDE DEF n
      <3>3. n + (faults + v) + expiries + cancels = n + faults + expiries + cancels + v
        BY <3>2
      <3>4. Budget(m) \in Nat
        BY <2>3 DEF Budget
      <3> QED BY <3>1, <3>3, <3>4
    <2>5. w + y <= q + x + v /\ w \in Nat /\ x \in Nat
      <3> HIDE DEF x, y, l, q, w
      <3>1. CASE cmd[k].pc = "ack"
        <4>1. b <= v /\ x = y
          BY <2>1, <3>1
        <4> QED BY <2>1, <2>2, <4>1
      <3>2. CASE cmd[k].pc # "ack"
        <4>1. x = y + l
          BY <2>1, <3>2
        <4> QED BY <2>1, <2>2, <4>1
      <3> QED BY <3>1, <3>2
    <2>6. replays'[m] + w + y + Budget(m) <= replays[m] + q + x + Budget(m)'
      <3> DEFINE u == Budget(m)
                 o == replays[m]
      <3>1. u \in Nat /\ o \in Nat /\ y \in Nat /\ q \in Nat /\ v \in Nat /\ Budget(m)' = u + v /\ replays'[m] = o
        BY <2>1, <2>3, <2>4
      <3> HIDE DEF x, y, l, q, w, u, o
      <3>2. o + w + y + u <= o + q + x + (u + v)
        BY <2>5, <3>1
      <3> QED BY <3>1, <3>2 DEF u
    <2> QED BY <1>2, <1>4, <2>6, OwedMoves
  <1> QED BY <1>4, <1>7, <1>8 DEF TallyInv

(* A step of one command and what it means for the counts. *)
LEMMA TallyMoves ==
  ASSUME NEW c, TallyConfig(c), DeadInv(c), TallyInv(c), DeadInv(c)', CountersTyped(c)',
         NEW k \in c.Commands, \A q \in c.Commands : q # k => cmd'[q] = cmd[q], deaths' = deaths,
         InReport(c, cmd'[k]) + Len(dead') + Len(limbo') = InReport(c, cmd[k]) + Len(dead) + Len(limbo),
         \A m \in c.Msgs : replays'[m] + Queued(c, m)' + ToSend(c, m, cmd'[k]) + Budget(m)
                             <= replays[m] + Queued(c, m) + ToSend(c, m, cmd[k]) + Budget(m)'
  PROVE  TallyInv(c)'
  <1>1. Reported(c)'
    BY ReportMoves
  <1>2. ASSUME NEW m \in c.Msgs PROVE Owed(c, m)'
    BY <1>2, OwedMoves
  <1> QED BY <1>1, <1>2 DEF TallyInv

(* The counts are numbers. *)
LEMMA QueuedTypes ==
  ASSUME NEW c, QueuesTyped(c), NEW m
  PROVE  Len(dead) \in Nat /\ Len(limbo) \in Nat /\ Queued(c, m) \in Nat
  <1>1. dead \in Seq(DeadMessages(c)) /\ limbo \in Seq(DeadMessages(c))
    BY DEF QueuesTyped
  <1>2. Count(LettersOf(c, m), dead) \in Nat /\ Count(LettersOf(c, m), limbo) \in Nat
    BY <1>1, CountType
  <1> QED BY <1>1, <1>2 DEF Queued

(* A command settles a delivery. *)
LEMMA SettleTally ==
  ASSUME NEW c, TallyConfig(c), DeadInv(c), TallyInv(c), DeadInv(c)', NEW k \in c.Commands,
         Dead(c)!Invalid(k) \/ Dead(c)!SendFails(k) \/ Dead(c)!Ack(k) \/ Dead(c)!AckFails(k)
  PROVE  TallyInv(c)'
  <1> DEFINE d == Head(cmd[k].hand)
  <1>1. cmd[k].hand # <<>> /\ UNCHANGED <<deaths, replays, expiries, cancels>>
    BY DEF Dead!Invalid, Dead!SendFails, Dead!Ack, Dead!AckFails, Dead!CanAck, Dead!At, Dead!ghosts, Dead!bounds
  <1>2. faults \in Nat /\ cmd[k] \in CommandStates(c)
    BY DEF TallyInv, CountersTyped, DeadInv, CommandsTyped
  <1>3. d.held \in BOOLEAN
    <2>1. d \in InHands(c)
      BY <1>1, <1>2, TailAmong DEF CommandStates
    <2> HIDE DEF d
    <2> QED BY <2>1 DEF InHands
  <1>4. One("failed" = "done") = 0 /\ One("done" = "done") = 1
    BY DEF One
  <1>5. Held1(k) = IF d.held THEN 1 ELSE 0
    BY DEF Held1, One
  <1>6. CASE Dead(c)!Invalid(k)
    <2>1. Dead(c)!NextOne(k, "failed") /\ cmd[k].pc # "ack"
      BY <1>6 DEF Dead!Invalid, Dead!At
    <2>2. PICK v \in 0..1 : faults' = faults + v /\ GoesBack(k, Held1(k))
      <3>1. CASE Dead(c)!GiveBack(k) /\ UNCHANGED <<limbo, faults>>
        <4>1. GoesBack(k, Held1(k))
          BY <1>3, <1>5, <3>1 DEF Dead!GiveBack, Dead!Cur, GoesBack
        <4>2. faults' = faults + 0
          BY <1>2, <3>1
        <4> QED BY <4>1, <4>2
      <3>2. CASE Dead(c)!RetryFails(k)
        <4>1. GoesBack(k, Held1(k))
          BY <1>3, <1>5, <3>2 DEF Dead!RetryFails, Dead!Cur, GoesBack
        <4>2. faults' = faults + 1
          BY <3>2 DEF Dead!RetryFails, Dead!Fault
        <4> QED BY <4>1, <4>2
      <3> QED BY <1>6, <3>1, <3>2 DEF Dead!Invalid
    <2>3. Held1(k) = Held1(k) + 0
      BY <1>5
    <2> QED BY <1>1, <1>4, <2>1, <2>2, <2>3, TallySettles
  <1>7. CASE Dead(c)!SendFails(k)
    <2>1. Dead(c)!NextOne(k, "failed") /\ cmd[k].pc # "ack" /\ faults' = faults + 1
      BY <1>7 DEF Dead!SendFails, Dead!At, Dead!Fault
    <2>2. GoesBack(k, Held1(k))
      BY <1>3, <1>5, <1>7 DEF Dead!SendFails, Dead!GiveBack, Dead!Cur, GoesBack
    <2>3. Held1(k) = Held1(k) + 0 /\ 1 \in 0..1
      BY <1>5
    <2> QED BY <1>1, <1>4, <2>1, <2>2, <2>3, TallySettles
  <1>8. CASE Dead(c)!Ack(k)
    <2>1. Dead(c)!NextOne(k, "done") /\ d.held /\ faults' = faults + 0 /\ dead' = dead /\ limbo' = limbo
      BY <1>2, <1>8 DEF Dead!Ack, Dead!Cur, Dead!queues, Dead!bounds
    <2>2. GoesBack(k, 0) /\ 0 \in 0..1 /\ 0 <= 0 /\ Held1(k) = 0 + 1
      BY <1>5, <2>1 DEF GoesBack
    <2> QED BY <1>1, <1>4, <2>1, <2>2, TallySettles
  <1>9. CASE Dead(c)!AckFails(k)
    <2>1. Dead(c)!NextOne(k, "failed") /\ dead' = dead
      BY <1>9 DEF Dead!AckFails
    <2>2. CASE ~d.held /\ UNCHANGED <<faults, limbo>>
      <3>1. GoesBack(k, 0) /\ 0 \in 0..1 /\ 0 <= 0 /\ Held1(k) = 0 + 0 /\ faults' = faults + 0
        BY <1>2, <1>5, <2>1, <2>2 DEF GoesBack
      <3> QED BY <1>1, <1>4, <2>1, <3>1, TallySettles
    <2>3. CASE d.held /\ Dead(c)!Fault /\ limbo' = Append(limbo, d.e)
      <3>1. GoesBack(k, 1) /\ 1 \in 0..1 /\ 1 <= 1 /\ Held1(k) = 1 + 0 /\ faults' = faults + 1
        BY <1>2, <1>5, <2>1, <2>3 DEF GoesBack, Dead!Fault
      <3> QED BY <1>1, <1>4, <2>1, <3>1, TallySettles
    <2> QED BY <1>9, <2>2, <2>3 DEF Dead!AckFails, Dead!Cur
  <1> QED BY <1>6, <1>7, <1>8, <1>9

(* A command whose hand stays as it is. *)
LEMMA SameHand ==
  ASSUME NEW c, NEW rec \in CommandStates(c), NEW new \in CommandStates(c), new.hand = rec.hand,
         new.done = rec.done, rec.pc # "ack", NEW m
  PROVE  /\ InReport(c, new) = InReport(c, rec) /\ InReport(c, rec) \in Nat
         /\ ToSend(c, m, rec) = Count(HandsOf(c, m), rec.hand) /\ ToSend(c, m, rec) \in Nat
         /\ ToSend(c, m, new) = ToSend(c, m, rec) - (IF new.pc = "ack" /\ Head(rec.hand) \in HandsOf(c, m) THEN 1 ELSE 0)
  <1> DEFINE A == HandsOf(c, m)
             h == rec.hand
  <1>1. h \in Seq(InHands(c)) /\ rec.done \in Nat
    BY DEF CommandStates
  <1>2. Count(A, h) \in Nat /\ Count(Holding(c), h) \in Nat
    BY <1>1, CountType
  <1>3. /\ ToSend(c, m, rec) = Count(A, h) - (IF FALSE THEN 1 ELSE 0)
        /\ ToSend(c, m, new) = Count(A, h) - (IF new.pc = "ack" /\ Head(h) \in A THEN 1 ELSE 0)
        /\ InReport(c, new) = Count(Holding(c), h) + rec.done
        /\ InReport(c, rec) = Count(Holding(c), h) + rec.done
    BY DEF ToSend, InReport
  <1> HIDE DEF A, h
  <1> QED BY <1>1, <1>2, <1>3 DEF A, h

(* A message is replayed: one fewer to send. *)
LEMMA SendTally ==
  ASSUME NEW c, TallyConfig(c), DeadInv(c), TallyInv(c), DeadInv(c)', NEW k \in c.Commands, Dead(c)!Send(k)
  PROVE  TallyInv(c)'
  <1> DEFINE d == Head(cmd[k].hand)
             x == d.e.m
  <1>1. /\ cmd[k].hand # <<>> /\ cmd[k].pc = "next" /\ d.e.ok
        /\ replays' = [replays EXCEPT ![x] = @ + 1] /\ cmd' = [cmd EXCEPT ![k].pc = "ack"]
        /\ UNCHANGED <<dead, limbo, deaths, faults, expiries, cancels>>
    BY DEF Dead!Send, Dead!At, Dead!Cur, Dead!bounds
  <1>2. CountersTyped(c) /\ cmd \in [c.Commands -> CommandStates(c)] /\ cmd[k] \in CommandStates(c)
    BY DEF TallyInv, DeadInv, CommandsTyped
  <1>3. /\ cmd' \in [c.Commands -> CommandStates(c)] /\ cmd'[k].hand = cmd[k].hand
        /\ cmd'[k].pc = "ack" /\ cmd'[k].done = cmd[k].done
        /\ \A q \in c.Commands : q # k => cmd'[q] = cmd[q]
    BY <1>1, <1>2 DEF CommandStates
  <1>4. d \in InHands(c) /\ d.e \in DeadMessages(c) /\ x \in c.Msgs
    <2>1. d \in InHands(c)
      BY <1>1, <1>2, TailAmong DEF CommandStates
    <2> HIDE DEF d
    <2>2. d.e \in DeadMessages(c)
      BY <2>1 DEF InHands
    <2> QED BY <1>1, <2>1, <2>2 DEF DeadMessages
  <1>5. \A m : d \in HandsOf(c, m) <=> m = x
    <2>1. d \in InHands(c) /\ d.e \in DeadMessages(c) /\ d.e.ok
      BY <1>1, <1>4
    <2> HIDE DEF d
    <2> QED BY <2>1 DEF HandsOf, LettersOf
  <1> HIDE DEF x
  <1>6. /\ replays' \in [c.Msgs -> Nat] /\ replays'[x] = replays[x] + 1
        /\ \A m \in c.Msgs : m # x => replays'[m] = replays[m]
    BY <1>1, <1>2, <1>4 DEF CountersTyped
  <1>7. CountersTyped(c)'
    <2>1. \A q \in c.Commands : /\ cmd'[q].pc = "ack" => cmd'[q].hand # <<>>
                                /\ cmd'[q].pc = "new" => cmd'[q].done = 0
      BY <1>1, <1>2, <1>3 DEF CountersTyped
    <2> QED BY <1>1, <1>2, <1>6, <2>1 DEF CountersTyped
  <1>8. \A m : /\ InReport(c, cmd'[k]) = InReport(c, cmd[k]) /\ InReport(c, cmd[k]) \in Nat
               /\ ToSend(c, m, cmd[k]) \in Nat
               /\ ToSend(c, m, cmd'[k]) = ToSend(c, m, cmd[k]) - (IF m = x THEN 1 ELSE 0)
    <2> SUFFICES ASSUME NEW m
                 PROVE  /\ InReport(c, cmd'[k]) = InReport(c, cmd[k]) /\ InReport(c, cmd[k]) \in Nat
                        /\ ToSend(c, m, cmd[k]) \in Nat
                        /\ ToSend(c, m, cmd'[k]) = ToSend(c, m, cmd[k]) - (IF m = x THEN 1 ELSE 0)
      OBVIOUS
    <2>1. cmd'[k] \in CommandStates(c) /\ cmd[k].pc # "ack"
      BY <1>1, <1>3
    <2>2. /\ InReport(c, cmd'[k]) = InReport(c, cmd[k]) /\ InReport(c, cmd[k]) \in Nat
          /\ ToSend(c, m, cmd[k]) \in Nat
          /\ ToSend(c, m, cmd'[k]) =
               ToSend(c, m, cmd[k]) - (IF cmd'[k].pc = "ack" /\ Head(cmd[k].hand) \in HandsOf(c, m) THEN 1 ELSE 0)
      BY <1>2, <1>3, <2>1, SameHand
    <2>3. cmd'[k].pc = "ack" /\ (Head(cmd[k].hand) \in HandsOf(c, m) <=> m = x)
      BY <1>3, <1>5
    <2> QED BY <2>2, <2>3
  <1>9. InReport(c, cmd'[k]) + Len(dead') + Len(limbo') = InReport(c, cmd[k]) + Len(dead) + Len(limbo)
    BY <1>1, <1>8
  <1>10. ASSUME NEW m \in c.Msgs
         PROVE  replays'[m] + Queued(c, m)' + ToSend(c, m, cmd'[k]) + Budget(m)
                  <= replays[m] + Queued(c, m) + ToSend(c, m, cmd[k]) + Budget(m)'
    <2> DEFINE y == ToSend(c, m, cmd[k])
               z == ToSend(c, m, cmd'[k])
               w == Queued(c, m)
               b == Budget(m)
               r == replays[m]
               i == IF m = x THEN 1 ELSE 0
    <2>1. y \in Nat /\ z = y - i /\ w \in Nat /\ r \in Nat /\ replays'[m] = r + i
      BY <1>2, <1>6, <1>8, QueuedTypes DEF DeadInv, CountersTyped
    <2>2. Queued(c, m)' = w /\ Budget(m)' = b
      BY <1>1 DEF Queued, Budget
    <2>3. b \in Nat
      BY <1>2 DEF CountersTyped, Budget
    <2>4. i \in Nat
      OBVIOUS
    <2> HIDE DEF y, z, w, b, r, i
    <2>5. (r + i) + w + z + b <= r + w + y + b
      BY <2>1, <2>3, <2>4
    <2> QED BY <2>1, <2>2, <2>5 DEF y, z, w, b, r
  <1> QED BY <1>1, <1>3, <1>7, <1>9, <1>10, TallyMoves

(* A command is over. *)
LEMMA EndTally ==
  ASSUME NEW c, TallyConfig(c), DeadInv(c), TallyInv(c), DeadInv(c)', NEW k \in c.Commands, Dead(c)!End(k)
  PROVE  TallyInv(c)'
  <1> DEFINE o == Dead(c)!Completion(k)
  <1>1. /\ cmd[k].pc = "next" /\ cmd' = [cmd EXCEPT ![k].pc = o]
        /\ UNCHANGED <<dead, limbo, deaths, replays, faults, expiries, cancels>>
    BY DEF Dead!End, Dead!queues, Dead!ghosts, Dead!bounds
  <1>2. o \in {"complete", "partial", "failed"}
    BY DEF Dead!Completion
  <1>3. CountersTyped(c) /\ cmd \in [c.Commands -> CommandStates(c)] /\ cmd[k] \in CommandStates(c)
    BY DEF TallyInv, DeadInv, CommandsTyped
  <1> HIDE DEF o
  <1>4. /\ cmd' \in [c.Commands -> CommandStates(c)] /\ cmd'[k].hand = cmd[k].hand
        /\ cmd'[k].pc = o /\ cmd'[k].done = cmd[k].done
        /\ \A q \in c.Commands : q # k => cmd'[q] = cmd[q]
    BY <1>1, <1>2, <1>3 DEF CommandStates
  <1>5. CountersTyped(c)'
    <2>1. \A q \in c.Commands : /\ cmd'[q].pc = "ack" => cmd'[q].hand # <<>>
                                /\ cmd'[q].pc = "new" => cmd'[q].done = 0
      BY <1>2, <1>3, <1>4 DEF CountersTyped
    <2> QED BY <1>1, <1>3, <2>1 DEF CountersTyped
  <1>6. \A m : /\ InReport(c, cmd'[k]) = InReport(c, cmd[k])
               /\ ToSend(c, m, cmd[k]) \in Nat /\ ToSend(c, m, cmd'[k]) = ToSend(c, m, cmd[k])
    <2> SUFFICES ASSUME NEW m
                 PROVE  /\ InReport(c, cmd'[k]) = InReport(c, cmd[k])
                        /\ ToSend(c, m, cmd[k]) \in Nat /\ ToSend(c, m, cmd'[k]) = ToSend(c, m, cmd[k])
      OBVIOUS
    <2>1. cmd'[k] \in CommandStates(c) /\ cmd[k].pc # "ack" /\ cmd'[k].pc # "ack"
      BY <1>1, <1>2, <1>4
    <2>2. /\ InReport(c, cmd'[k]) = InReport(c, cmd[k]) /\ ToSend(c, m, cmd[k]) \in Nat
          /\ ToSend(c, m, cmd'[k]) =
               ToSend(c, m, cmd[k]) - (IF cmd'[k].pc = "ack" /\ Head(cmd[k].hand) \in HandsOf(c, m) THEN 1 ELSE 0)
      BY <1>3, <1>4, <2>1, SameHand
    <2> QED BY <2>1, <2>2
  <1>7. InReport(c, cmd'[k]) + Len(dead') + Len(limbo') = InReport(c, cmd[k]) + Len(dead) + Len(limbo)
    BY <1>1, <1>6
  <1>8. ASSUME NEW m \in c.Msgs
        PROVE  replays'[m] + Queued(c, m)' + ToSend(c, m, cmd'[k]) + Budget(m)
                 <= replays[m] + Queued(c, m) + ToSend(c, m, cmd[k]) + Budget(m)'
    <2>1. Queued(c, m)' = Queued(c, m) /\ Budget(m)' = Budget(m) /\ replays' = replays
      BY <1>1 DEF Queued, Budget
    <2>2. Queued(c, m) \in Nat /\ Budget(m) \in Nat /\ replays[m] \in Nat
      BY <1>3, QueuedTypes DEF CountersTyped, Budget, DeadInv
    <2>3. ToSend(c, m, cmd[k]) \in Nat /\ ToSend(c, m, cmd'[k]) = ToSend(c, m, cmd[k])
      BY <1>6
    <2> QED BY <2>1, <2>2, <2>3
  <1> QED BY <1>1, <1>4, <1>5, <1>7, <1>8, TallyMoves

(* A command takes letters off the queue: it holds them instead. *)
LEMMA BeginTally ==
  ASSUME NEW c, TallyConfig(c), DeadInv(c), TallyInv(c), DeadInv(c)',
         NEW k \in c.Commands, NEW op \in Dead(c)!Ops, Dead(c)!Begin(k, op)
  PROVE  TallyInv(c)'
  <1> DEFINE n == Dead(c)!Take(c.Limit)
             got == [i \in 1..n |-> [e |-> dead[i], held |-> TRUE]]
             new == [Dead(c)!Idle EXCEPT !.pc = "next", !.op = op, !.hand = got]
  <1>1. /\ cmd[k].pc = "new" /\ cmd' = [cmd EXCEPT ![k] = new]
        /\ dead' = SubSeq(dead, n + 1, Len(dead))
        /\ UNCHANGED <<limbo, deaths, replays, faults, expiries, cancels>>
    BY DEF Dead!Begin, Dead!ghosts, Dead!bounds
  <1>2. /\ dead \in Seq(DeadMessages(c)) /\ Len(dead) \in Nat /\ Len(limbo) \in Nat
        /\ CountersTyped(c) /\ cmd \in [c.Commands -> CommandStates(c)]
        /\ cmd[k].hand = <<>> /\ cmd[k].done = 0 /\ cmd' \in [c.Commands -> CommandStates(c)]
        /\ dead' \in Seq(DeadMessages(c))
    BY <1>1 DEF DeadInv, QueuesTyped, TallyInv, CountersTyped, CommandsTyped
  <1>3. n \in Nat /\ n <= c.Limit /\ n <= Len(dead)
    BY <1>2 DEF Dead!Take, TallyConfig, DeadConfig
  <1> HIDE DEF n
  <1>4. got \in Seq(Holding(c)) /\ got \in Seq(InHands(c)) /\ Len(got) = n
    <2>1. \A i \in 1..n : dead[i] \in DeadMessages(c)
      BY <1>2, <1>3
    <2>2. \A i \in 1..n : [e |-> dead[i], held |-> TRUE] \in InHands(c)
      BY <2>1, Zenon DEF InHands
    <2>3. \A i \in 1..n : [e |-> dead[i], held |-> TRUE] \in Holding(c)
      BY <2>2 DEF Holding
    <2>4. got \in [1..n -> Holding(c)] /\ got \in [1..n -> InHands(c)]
      BY <2>2, <2>3
    <2> QED BY <1>3, <2>4
  <1>5. DOMAIN got = 1..n /\ \A i \in 1..n : got[i] \in InHands(c) /\ got[i].e = dead[i]
    <2>1. DOMAIN got = 1..n /\ \A i \in 1..n : got[i].e = dead[i]
      OBVIOUS
    <2> HIDE DEF got
    <2> QED BY <1>4, <2>1
  <1> HIDE DEF got
  <1>6. new.hand = got /\ new.pc = "next" /\ new.done = 0
    BY DEF Dead!Idle
  <1> HIDE DEF new
  <1>7. cmd'[k] = new /\ \A q \in c.Commands : q # k => cmd'[q] = cmd[q]
    BY <1>1, <1>2
  <1>8. CountersTyped(c)'
    <2>1. \A q \in c.Commands : /\ cmd'[q].pc = "ack" => cmd'[q].hand # <<>>
                                /\ cmd'[q].pc = "new" => cmd'[q].done = 0
      BY <1>2, <1>6, <1>7 DEF CountersTyped
    <2> QED BY <1>1, <1>2, <2>1 DEF CountersTyped
  <1>9. Follows(dead', dead, n)
    <2>1. Len(dead') = Len(dead) - n
      BY <1>1, <1>2, <1>3
    <2>2. \A i \in 1..Len(dead') : dead'[i] = dead[i + n]
      BY <1>1, <1>2, <1>3, <2>1
    <2> QED BY <1>3, <2>1, <2>2 DEF Follows
  <1>10. Len(dead') = Len(dead) - n
    BY <1>9 DEF Follows
  <1>11. \A A : Count(A, cmd[k].hand) = 0
    <2>1. cmd[k].hand \in Seq(InHands(c))
      BY <1>2
    <2> QED BY <1>2, <2>1, CountType
  <1>12. InReport(c, cmd[k]) = 0 /\ InReport(c, cmd'[k]) = n
    <2>1. Count(Holding(c), got) = n
      BY <1>4, CountAll
    <2>2. InReport(c, cmd'[k]) = n + 0
      BY <1>6, <1>7, <2>1 DEF InReport
    <2> QED BY <1>2, <1>3, <1>11, <2>2 DEF InReport
  <1>13. InReport(c, cmd'[k]) + Len(dead') + Len(limbo') = InReport(c, cmd[k]) + Len(dead) + Len(limbo)
    BY <1>1, <1>2, <1>3, <1>10, <1>12
  <1>14. ASSUME NEW m \in c.Msgs
         PROVE  replays'[m] + Queued(c, m)' + ToSend(c, m, cmd'[k]) + Budget(m)
                  <= replays[m] + Queued(c, m) + ToSend(c, m, cmd[k]) + Budget(m)'
    <2> DEFINE L == LettersOf(c, m)
               A == HandsOf(c, m)
    <2>1. ToSend(c, m, cmd[k]) = 0
      BY <1>1, <1>11 DEF ToSend
    <2>2. ToSend(c, m, cmd'[k]) = Count(A, got) - (IF FALSE THEN 1 ELSE 0)
      BY <1>6, <1>7 DEF ToSend
    <2>3. Count(A, got) = FirstCount(L, dead, n)
      <3>1. \A i \in 1..n : got[i] \in A <=> dead[i] \in L
        BY <1>5 DEF HandsOf
      <3>2. {i \in DOMAIN got : got[i] \in A} = {i \in 1..n : dead[i] \in L}
        <4> HIDE DEF A, L
        <4> QED BY <1>5, <3>1
      <3> QED BY <3>2 DEF Count, FirstCount
    <2>4. FirstCount(L, dead, n) \in Nat /\ Count(L, dead) = FirstCount(L, dead, n) + Count(L, dead')
      BY <1>2, <1>3, <1>9, CountRest
    <2>5. Count(L, dead') \in Nat /\ Count(L, limbo) \in Nat
      <3>1. limbo \in Seq(DeadMessages(c))
        BY DEF DeadInv, QueuesTyped
      <3> QED BY <1>2, <3>1, CountType
    <2>6. Queued(c, m) = Count(L, dead) + Count(L, limbo) /\ Queued(c, m)' = Count(L, dead') + Count(L, limbo)
      BY <1>1 DEF Queued
    <2>7. Budget(m)' = Budget(m) /\ replays' = replays
      BY <1>1 DEF Budget
    <2>8. Budget(m) \in Nat /\ replays[m] \in Nat
      BY <1>2 DEF CountersTyped, Budget
    <2> HIDE DEF L, A
    <2>9. Queued(c, m)' + ToSend(c, m, cmd'[k]) = Queued(c, m) + ToSend(c, m, cmd[k])
      BY <2>1, <2>2, <2>3, <2>4, <2>5, <2>6
    <2>10. Queued(c, m)' \in Nat /\ Queued(c, m) \in Nat /\ ToSend(c, m, cmd'[k]) \in Nat
      BY <2>2, <2>3, <2>4, <2>5, <2>6
    <2> QED BY <2>1, <2>7, <2>8, <2>9, <2>10
  <1> QED BY <1>1, <1>7, <1>8, <1>13, <1>14, TallyMoves

(* A lease runs out: its letter is there once more. *)
LEMMA ExpireTally ==
  ASSUME NEW c, TallyConfig(c), DeadInv(c), TallyInv(c), DeadInv(c)', NEW k \in c.Commands, Dead(c)!ExpireHeld(k)
  PROVE  TallyInv(c)'
  <1> DEFINE h == cmd[k].hand
  <1>1. PICK i \in DOMAIN h : h[i].held /\ cmd' = [cmd EXCEPT ![k].hand[i].held = FALSE]
                              /\ dead' = Append(dead, h[i].e)
    BY DEF Dead!ExpireHeld
  <1>2. UNCHANGED <<limbo, deaths, replays, faults, cancels>> /\ expiries' = expiries + 1
    BY DEF Dead!ExpireHeld, Dead!ghosts
  <1>3. /\ cmd[k] \in CommandStates(c) /\ h \in Seq(InHands(c)) /\ dead \in Seq(DeadMessages(c))
        /\ CountersTyped(c) /\ cmd \in [c.Commands -> CommandStates(c)] /\ cmd' \in [c.Commands -> CommandStates(c)]
        /\ QueuesTyped(c) /\ cmd[k].done \in Nat
    BY DEF DeadInv, CommandsTyped, CommandStates, QueuesTyped, TallyInv
  <1> DEFINE x == [h[i] EXCEPT !.held = FALSE]
             g == [h EXCEPT ![i] = x]
             new == [cmd[k] EXCEPT !.hand = g]
  <1>4. h[i] \in InHands(c) /\ h[i].e \in DeadMessages(c)
    <2>1. h[i] \in InHands(c)
      BY <1>3
    <2> HIDE DEF h
    <2> QED BY <2>1 DEF InHands
  <1>5. x \in InHands(c) /\ x.e = h[i].e /\ x.held = FALSE
    BY <1>4 DEF InHands
  <1>6. cmd' = [cmd EXCEPT ![k] = new]
    BY <1>1, <1>3 DEF CommandStates
  <1> HIDE DEF x
  <1>7. g \in Seq(InHands(c)) /\ DOMAIN g = DOMAIN h /\ g[i] = x /\ \A j \in DOMAIN h : j # i => g[j] = h[j]
    <2> HIDE DEF h
    <2>3. i \in 1..Len(h) /\ h \in [1..Len(h) -> InHands(c)] /\ Len(h) \in Nat
      BY <1>1, <1>3
    <2>4. g \in [1..Len(h) -> InHands(c)]
      BY <1>5, <2>3
    <2>5. g[i] = x /\ \A j \in DOMAIN h : j # i => g[j] = h[j]
      BY <2>3
    <2> HIDE DEF g
    <2>6. g \in Seq(InHands(c)) /\ DOMAIN g = DOMAIN h
      BY <2>3, <2>4
    <2> QED BY <2>5, <2>6
  <1> HIDE DEF g
  <1>8. new.hand = g /\ new.pc = cmd[k].pc /\ new.done = cmd[k].done
    BY <1>3 DEF CommandStates
  <1> HIDE DEF new
  <1>9. cmd'[k] = new /\ \A q \in c.Commands : q # k => cmd'[q] = cmd[q]
    BY <1>3, <1>6
  <1>10. cmd[k].pc # "new" /\ g # <<>>
    BY <1>1, <1>7 DEF DeadInv, CommandsTyped
  <1>11. CountersTyped(c)'
    <2>1. \A q \in c.Commands : /\ cmd'[q].pc = "ack" => cmd'[q].hand # <<>>
                                /\ cmd'[q].pc = "new" => cmd'[q].done = 0
      BY <1>3, <1>8, <1>9, <1>10 DEF CountersTyped
    <2>2. expiries' \in Nat
      BY <1>2, <1>3 DEF CountersTyped
    <2> QED BY <1>2, <1>3, <2>1, <2>2 DEF CountersTyped
  <1>12. \A A : Count(A, g) = Count(A, h) - (IF h[i] \in A THEN 1 ELSE 0) + (IF x \in A THEN 1 ELSE 0)
    <2> HIDE DEF h
    <2> QED BY <1>1, <1>3, <1>7, CountReplaced
  <1>13. InReport(c, cmd'[k]) = InReport(c, cmd[k]) - 1 /\ InReport(c, cmd[k]) \in Nat
    <2>1. h[i] \in Holding(c) /\ x \notin Holding(c)
      BY <1>1, <1>4, <1>5 DEF Holding
    <2>2. Count(Holding(c), h) \in Nat
      BY <1>3, CountType
    <2>3. Count(Holding(c), g) = Count(Holding(c), h) - 1
      BY <1>12, <2>1, <2>2
    <2>4. InReport(c, cmd'[k]) = Count(Holding(c), g) + cmd[k].done
      BY <1>8, <1>9 DEF InReport
    <2>5. InReport(c, cmd[k]) = Count(Holding(c), h) + cmd[k].done
      BY DEF InReport
    <2> HIDE DEF h
    <2> QED BY <1>3, <2>2, <2>3, <2>4, <2>5
  <1>14. /\ Len(dead') = Len(dead) + 1 /\ Len(dead) \in Nat /\ Len(limbo) \in Nat /\ limbo' = limbo
    BY <1>1, <1>2, <1>3, <1>4, LetterAppended, QueuedTypes
  <1>15. InReport(c, cmd'[k]) + Len(dead') + Len(limbo') = InReport(c, cmd[k]) + Len(dead) + Len(limbo)
    BY <1>13, <1>14
  <1>16. ASSUME NEW m \in c.Msgs
         PROVE  replays'[m] + Queued(c, m)' + ToSend(c, m, cmd'[k]) + Budget(m)
                  <= replays[m] + Queued(c, m) + ToSend(c, m, cmd[k]) + Budget(m)'
    <2> DEFINE L == LettersOf(c, m)
               A == HandsOf(c, m)
    <2>1. h[i] \in A <=> x \in A
      BY <1>4, <1>5 DEF HandsOf
    <2>2. Count(A, h) \in Nat
      BY <1>3, CountType
    <2>3. Count(A, g) = Count(A, h)
      BY <1>12, <2>1, <2>2
    <2>4. h # <<>> /\ (Head(g) \in A <=> Head(h) \in A)
      <3>1. Head(g) = g[1] /\ Head(h) = h[1]
        BY <1>3, <1>7, <1>10
      <3>2. 1 \in DOMAIN h /\ h # <<>>
        BY <1>1, <1>3
      <3> HIDE DEF A, h
      <3> QED BY <1>7, <2>1, <3>1, <3>2
    <2>5. ToSend(c, m, cmd'[k]) = ToSend(c, m, cmd[k])
      BY <1>8, <1>9, <2>3, <2>4 DEF ToSend
    <2>6. ToSend(c, m, cmd[k]) \in Nat
      BY <1>3, TallyTypes DEF CountersTyped
    <2>7. /\ Count(L, dead') = Count(L, dead) + (IF h[i].e \in L THEN 1 ELSE 0) /\ Count(L, dead) \in Nat
      BY <1>1, <1>3, <1>4, LetterAppended
    <2>8. Queued(c, m) = Count(L, dead) + Count(L, limbo) /\ Queued(c, m)' = Count(L, dead') + Count(L, limbo)
      BY <1>2 DEF Queued
    <2>9. Count(L, limbo) \in Nat
      <3>1. limbo \in Seq(DeadMessages(c))
        BY <1>3 DEF QueuesTyped
      <3> QED BY <3>1, CountType
    <2>10. replays[m] \in Nat /\ replays' = replays /\ Budget(m) \in Nat /\ Budget(m)' = Budget(m) + 1
      BY <1>2, <1>3 DEF CountersTyped, Budget
    <2> HIDE DEF L, A, h
    <2>11. Queued(c, m)' <= Queued(c, m) + 1 /\ Queued(c, m)' \in Nat /\ Queued(c, m) \in Nat
      BY <2>7, <2>8, <2>9
    <2> QED BY <2>5, <2>6, <2>10, <2>11
  <1> QED BY <1>2, <1>9, <1>11, <1>15, <1>16, TallyMoves

(* What a cancelled command held is leased, in some order. *)
LEMMA LeasedAgain ==
  ASSUME NEW c, NEW k, NEW h \in Seq(InHands(c)), NEW q \in Dead(c)!Orders({i \in DOMAIN h : h[i].held}),
         NEW t, t = [i \in DOMAIN q |-> h[q[i]].e], NEW m
  PROVE  /\ t \in Seq(DeadMessages(c)) /\ Len(t) = Count(Holding(c), h)
         /\ Count(LettersOf(c, m), t) <= Count(HandsOf(c, m), h)
  <1> DEFINE S == {i \in DOMAIN h : h[i].held}
             n == Dead(c)!Cardinality(S)
             T == {i \in DOMAIN t : t[i] \in LettersOf(c, m)}
             U == {i \in DOMAIN h : h[i] \in HandsOf(c, m)}
             f == [i \in T |-> q[i]]
  <1>1. \A i \in DOMAIN h : h[i] \in InHands(c) /\ h[i].e \in DeadMessages(c)
    <2>1. \A i \in DOMAIN h : h[i] \in InHands(c)
      OBVIOUS
    <2> QED BY <2>1 DEF InHands
  <1>2. S = {i \in DOMAIN h : h[i] \in Holding(c)}
    BY <1>1 DEF Holding
  <1>3. IsFiniteSet(S) /\ n = Count(Holding(c), h) /\ n \in Nat
    <2>1. IsFiniteSet({i \in DOMAIN h : h[i] \in Holding(c)}) /\ Count(Holding(c), h) \in Nat
      BY CountType
    <2>2. IsFiniteSet(S)
      BY <1>2, <2>1
    <2>3. n = Cardinality(S)
      BY <2>2, DeadCardinality
    <2>4. Cardinality(S) = Count(Holding(c), h)
      BY <1>2 DEF Count
    <2> QED BY <2>1, <2>2, <2>3, <2>4
  <1>4. q \in [1..n -> S] /\ \A i, j \in 1..n : q[i] = q[j] => i = j
    BY DEF Dead!Orders, Dead!Bijection, Dead!Injection, Dead!IsInjective
  <1> HIDE DEF n
  <1>5. DOMAIN t = 1..n /\ \A i \in 1..n : q[i] \in DOMAIN h /\ t[i] = h[q[i]].e
    BY <1>4
  <1>6. t \in Seq(DeadMessages(c)) /\ Len(t) = n
    <2>1. t \in [1..n -> DeadMessages(c)]
      BY <1>1, <1>4, <1>5
    <2> QED BY <1>3, <2>1
  <1>7. Cardinality(T) <= Cardinality(U)
    <2>1. IsFiniteSet(U)
      BY CountType
    <2>2. \A i \in T : q[i] \in U
      BY <1>1, <1>5 DEF HandsOf
    <2>3. \A i \in T : i \in 1..n
      BY <1>5
    <2> HIDE DEF T, U
    <2>4. f \in [T -> U] /\ \A i, j \in T : f[i] = f[j] => i = j
      BY <1>4, <2>2, <2>3
    <2> HIDE DEF f
    <2>5. f \in Injection(T, U)
      BY <2>4 DEF Injection, IsInjective
    <2> QED BY <2>1, <2>5, FS_Injection
  <1> QED BY <1>3, <1>6, <1>7 DEF Count

(* A command is cancelled: what it replayed last may be replayed again. *)
LEMMA CancelTally ==
  ASSUME NEW c, TallyConfig(c), DeadInv(c), TallyInv(c), DeadInv(c)', NEW k \in c.Commands, Dead(c)!Cancel(k)
  PROVE  TallyInv(c)'
  <1> DEFINE h == cmd[k].hand
             none == <<>>
             new == [cmd[k] EXCEPT !.pc = "cancelled", !.hand = none]
  <1>1. /\ cmd' = [cmd EXCEPT ![k].pc = "cancelled", ![k].hand = <<>>]
        /\ cancels < c.MaxCancels /\ cancels' = cancels + 1
        /\ UNCHANGED <<dead, deaths, replays, faults, expiries>>
    BY DEF Dead!Cancel, Dead!ghosts
  <1>2. /\ limbo \in Seq(DeadMessages(c)) /\ cmd[k] \in CommandStates(c) /\ CountersTyped(c)
        /\ cmd \in [c.Commands -> CommandStates(c)] /\ h \in Seq(InHands(c)) /\ QueuesTyped(c)
        /\ cmd[k].done \in Nat /\ cancels \in Nat
    BY DEF DeadInv, QueuesTyped, CommandsTyped, CommandStates, TallyInv, CountersTyped
  <1>3. c.Leased
    BY <1>1, <1>2 DEF TallyConfig, DeadConfig
  <1>4. PICK q \in Dead(c)!Orders({i \in DOMAIN h : h[i].held}) : limbo' = limbo \o [i \in DOMAIN q |-> h[q[i]].e]
    BY <1>3 DEF Dead!Cancel, Dead!Held
  <1> DEFINE t == [i \in DOMAIN q |-> h[q[i]].e]
  <1>5. \A m : /\ t \in Seq(DeadMessages(c)) /\ Len(t) = Count(Holding(c), h)
               /\ Count(LettersOf(c, m), t) <= Count(HandsOf(c, m), h)
    BY <1>2, LeasedAgain
  <1>6. limbo' = limbo \o t
    BY <1>4
  <1> HIDE DEF t
  <1>7. cmd' = [cmd EXCEPT ![k] = new]
    BY <1>1, <1>2 DEF CommandStates
  <1>8. new.hand = none /\ new.pc = "cancelled" /\ new.done = cmd[k].done
    <2> HIDE DEF none
    <2> QED BY <1>2 DEF CommandStates
  <1> HIDE DEF new
  <1>9. cmd'[k] = new /\ \A r \in c.Commands : r # k => cmd'[r] = cmd[r]
    BY <1>2, <1>7
  <1>10. CountersTyped(c)'
    <2>1. \A r \in c.Commands : /\ cmd'[r].pc = "ack" => cmd'[r].hand # <<>>
                                /\ cmd'[r].pc = "new" => cmd'[r].done = 0
      BY <1>2, <1>8, <1>9 DEF CountersTyped
    <2>2. cancels' \in Nat
      BY <1>1, <1>2
    <2> QED BY <1>1, <1>2, <2>1, <2>2 DEF CountersTyped
  <1>11. \A A : Count(A, none) = 0 /\ Count(A, h) \in Nat
    <2>1. none \in Seq(InHands(c))
      OBVIOUS
    <2> QED BY <1>2, <2>1, CountType
  <1>12. InReport(c, cmd'[k]) + Len(dead') + Len(limbo') = InReport(c, cmd[k]) + Len(dead) + Len(limbo)
    <2>1. Len(limbo') = Len(limbo) + Count(Holding(c), h)
      <3>1. t \in Seq(DeadMessages(c)) /\ Len(t) = Count(Holding(c), h)
        BY <1>5
      <3> HIDE DEF h
      <3>2. Len(limbo \o t) = Len(limbo) + Len(t)
        BY <1>2, <3>1, CountBoth
      <3> QED BY <1>6, <3>1, <3>2
    <2>2. InReport(c, cmd'[k]) = 0 + cmd[k].done /\ InReport(c, cmd[k]) = Count(Holding(c), h) + cmd[k].done
      BY <1>8, <1>9, <1>11 DEF InReport
    <2>3. Len(dead) \in Nat /\ Len(limbo) \in Nat /\ dead' = dead
      BY <1>1, <1>2, QueuedTypes
    <2> HIDE DEF h
    <2> QED BY <1>2, <1>11, <2>1, <2>2, <2>3
  <1>13. ASSUME NEW m \in c.Msgs
         PROVE  replays'[m] + Queued(c, m)' + ToSend(c, m, cmd'[k]) + Budget(m)
                  <= replays[m] + Queued(c, m) + ToSend(c, m, cmd[k]) + Budget(m)'
    <2> DEFINE L == LettersOf(c, m)
               A == HandsOf(c, m)
    <2>1. ToSend(c, m, cmd'[k]) = 0
      BY <1>8, <1>9, <1>11 DEF ToSend
    <2>2. ToSend(c, m, cmd[k]) \in Nat /\ Count(A, h) <= ToSend(c, m, cmd[k]) + 1
      <3>1. ToSend(c, m, cmd[k]) \in Nat
        BY <1>2, TallyTypes DEF CountersTyped
      <3>2. ToSend(c, m, cmd[k]) = Count(A, h) - (IF cmd[k].pc = "ack" /\ Head(h) \in A THEN 1 ELSE 0)
        BY DEF ToSend
      <3>3. Count(A, h) \in Nat
        BY <1>11
      <3> HIDE DEF A, h
      <3> QED BY <3>1, <3>2, <3>3
    <2>3. Count(L, limbo') = Count(L, limbo) + Count(L, t)
      BY <1>2, <1>5, <1>6, CountBoth
    <2>4. Count(L, t) <= Count(A, h) /\ Count(L, t) \in Nat /\ Count(L, limbo) \in Nat
      BY <1>2, <1>5, CountType
    <2>5. Count(L, dead) \in Nat
      <3>1. dead \in Seq(DeadMessages(c))
        BY <1>2 DEF QueuesTyped
      <3> QED BY <3>1, CountType
    <2>6. Queued(c, m) = Count(L, dead) + Count(L, limbo) /\ Queued(c, m)' = Count(L, dead) + Count(L, limbo')
      BY <1>1 DEF Queued
    <2>7. replays[m] \in Nat /\ replays' = replays /\ Budget(m) \in Nat /\ Budget(m)' = Budget(m) + 1
      <3> DEFINE d == deaths[m]
      <3>1. d \in Nat /\ faults \in Nat /\ expiries \in Nat /\ cancels \in Nat /\ replays[m] \in Nat /\ replays' = replays
        BY <1>1, <1>2 DEF CountersTyped
      <3>2. Budget(m) = d + faults + expiries + cancels /\ Budget(m)' = d + faults + expiries + (cancels + 1)
        BY <1>1 DEF Budget
      <3> HIDE DEF d
      <3> QED BY <3>1, <3>2
    <2>8. Count(A, h) \in Nat
      BY <1>11
    <2> HIDE DEF L, A, h
    <2>9. Queued(c, m)' <= Queued(c, m) + (ToSend(c, m, cmd[k]) + 1) /\ Queued(c, m)' \in Nat /\ Queued(c, m) \in Nat
      BY <2>2, <2>3, <2>4, <2>5, <2>6, <2>8
    <2> QED BY <2>1, <2>2, <2>7, <2>9
  <1> QED BY <1>1, <1>9, <1>10, <1>12, <1>13, TallyMoves

(* A total is a number, and nothing added up is nothing. *)
LEMMA TotalType ==
  ASSUME NEW c, NEW D, IsFiniteSet(D), NEW f \in [D -> Nat]
  PROVE  /\ Dead(c)!Total(f) \in Nat
         /\ (\A x \in D : f[x] = 0) => Dead(c)!Total(f) = 0
  <1> DEFINE T == UNION {{y} \X (1..f[y]) : y \in DOMAIN f}
  <1>1. (\A x \in D : f[x] = 0) => T = {}
    OBVIOUS
  <1>2. T = {} => Dead(c)!Total(f) = 0
    BY FS_EmptySet, DeadCardinality DEF Dead!Total
  <1>3. CASE D = {}
    BY <1>1, <1>2, <1>3
  <1>4. CASE D # {}
    <2>1. PICK x \in D : TRUE
      BY <1>4
    <2>2. Cardinality(Apart(f, x)) \in Nat /\ Dead(c)!Total(f) = Cardinality(Apart(f, x)) + f[x]
      BY TotalSplits
    <2> QED BY <1>1, <1>2, <2>2
  <1> QED BY <1>3, <1>4

(* A sum of four. *)
LEMMA SumOfFour ==
  ASSUME NEW a \in Nat, NEW b \in Nat, NEW c \in Nat, NEW d \in Nat
  PROVE  a + b + c + d \in Nat
  OBVIOUS

(* A step that no command takes. *)
LEMMA QuietTally ==
  ASSUME NEW c, TallyConfig(c), DeadInv(c), TallyInv(c), DeadInv(c)', CountersTyped(c)', cmd' = cmd,
         Dead(c)!Total(deaths') + Len(dead) + Len(limbo) = Dead(c)!Total(deaths) + Len(dead') + Len(limbo'),
         \A m \in c.Msgs : replays'[m] + Queued(c, m)' + Budget(m) <= replays[m] + Queued(c, m) + Budget(m)'
  PROVE  TallyInv(c)'
  <1> DEFINE f == [q \in c.Commands |-> InReport(c, cmd[q])]
             g(m) == [q \in c.Commands |-> ToSend(c, m, cmd[q])]
  <1>1. IsFiniteSet(c.Commands) /\ IsFiniteSet(c.Msgs) /\ CountersTyped(c)
    BY DEF TallyConfig, DeadConfig, TallyInv
  <1>2. \A q \in c.Commands : InReport(c, cmd[q]) \in Nat /\ \A m : ToSend(c, m, cmd[q]) \in Nat
    BY <1>1, TallyTypes DEF CountersTyped, DeadInv, CommandsTyped
  <1>3. Dead(c)!Total(f) \in Nat
    <2>1. f \in [c.Commands -> Nat]
      BY <1>2
    <2> HIDE DEF f
    <2> QED BY <1>1, <2>1, TotalType
  <1>4. Dead(c)!Total(deaths) \in Nat /\ Dead(c)!Total(deaths') \in Nat
    BY <1>1, TotalType DEF CountersTyped
  <1>5. Len(dead) \in Nat /\ Len(limbo) \in Nat /\ Len(dead') \in Nat /\ Len(limbo') \in Nat
    BY DEF DeadInv, QueuesTyped
  <1>6. Dead(c)!Total(deaths) + 1 = Len(dead) + Len(limbo) + Dead(c)!Total(f)
    BY DEF TallyInv, Reported
  <1>7. Reported(c)'
    <2> HIDE DEF f
    <2>1. Dead(c)!Total(deaths') + 1 = Len(dead') + Len(limbo') + Dead(c)!Total(f)
      BY <1>3, <1>4, <1>5, <1>6
    <2> QED BY <2>1 DEF Reported, f
  <1>8. ASSUME NEW m \in c.Msgs PROVE Owed(c, m)'
    <2> DEFINE o == Dead(c)!Total(g(m))
               r == replays[m]
               s == replays'[m]
               w == Queued(c, m)
               v == Queued(c, m)'
               b == Budget(m)
               a == Budget(m)'
    <2>1. g(m) \in [c.Commands -> Nat]
      BY <1>2
    <2>2. o \in Nat
      <3> HIDE DEF g
      <3> QED BY <1>1, <2>1, TotalType
    <2>3. r + w + o <= b /\ s + v + b <= r + w + a
      BY <1>8 DEF TallyInv, Owed
    <2>4. r \in Nat /\ s \in Nat /\ b \in Nat /\ a \in Nat
      <3>1. /\ r \in Nat /\ s \in Nat /\ deaths[m] \in Nat /\ deaths'[m] \in Nat
        BY <1>1 DEF CountersTyped
      <3>2. /\ faults \in Nat /\ expiries \in Nat /\ cancels \in Nat
            /\ faults' \in Nat /\ expiries' \in Nat /\ cancels' \in Nat
        BY <1>1 DEF CountersTyped
      <3>3. b \in Nat
        BY <3>1, <3>2, SumOfFour DEF Budget
      <3>4. a \in Nat
        BY <3>1, <3>2, SumOfFour DEF Budget
      <3> QED BY <3>1, <3>3, <3>4
    <2>5. w \in Nat
      BY QueuedTypes DEF DeadInv
    <2>6. v \in Nat
      <3> DEFINE L == LettersOf(c, m)
      <3>1. dead' \in Seq(DeadMessages(c)) /\ limbo' \in Seq(DeadMessages(c))
        BY DEF DeadInv, QueuesTyped
      <3> HIDE DEF L
      <3>2. Count(L, dead') \in Nat /\ Count(L, limbo') \in Nat
        BY <3>1, CountType
      <3> QED BY <3>2 DEF Queued, L
    <2> HIDE DEF o, r, s, w, v, b, a
    <2>7. s + v + o <= a
      BY <2>2, <2>3, <2>4, <2>5, <2>6
    <2> QED BY <2>7 DEF Owed, s, v, o, a
  <1> QED BY <1>7, <1>8 DEF TallyInv

(* A lease that outlived its command runs out. *)
LEMMA ExpireLimboTally ==
  ASSUME NEW c, TallyConfig(c), DeadInv(c), TallyInv(c), DeadInv(c)', Dead(c)!ExpireLimbo
  PROVE  TallyInv(c)'
  <1>1. limbo # <<>> /\ limbo' = Tail(limbo) /\ dead' = Append(dead, Head(limbo))
        /\ UNCHANGED <<cmd, deaths, replays, faults, expiries, cancels>>
    BY DEF Dead!ExpireLimbo, Dead!ghosts, Dead!bounds
  <1>2. dead \in Seq(DeadMessages(c)) /\ limbo \in Seq(DeadMessages(c)) /\ CountersTyped(c)
    BY DEF DeadInv, QueuesTyped, TallyInv
  <1>3. Head(limbo) \in DeadMessages(c) /\ Tail(limbo) \in Seq(DeadMessages(c)) /\ Len(Tail(limbo)) = Len(limbo) - 1
    BY <1>1, <1>2
  <1>4. CountersTyped(c)'
    BY <1>1, <1>2 DEF CountersTyped
  <1>5. Dead(c)!Total(deaths') + Len(dead) + Len(limbo) = Dead(c)!Total(deaths) + Len(dead') + Len(limbo')
    <2>1. Len(dead') = Len(dead) + 1 /\ Len(dead) \in Nat /\ Len(limbo) \in Nat /\ Len(limbo') = Len(limbo) - 1
      BY <1>1, <1>2, <1>3, LetterAppended
    <2>2. Dead(c)!Total(deaths) \in Nat
      BY <1>2, TotalType DEF CountersTyped, TallyConfig, DeadConfig
    <2> QED BY <1>1, <2>1, <2>2
  <1>6. ASSUME NEW m \in c.Msgs
        PROVE  replays'[m] + Queued(c, m)' + Budget(m) <= replays[m] + Queued(c, m) + Budget(m)'
    <2> DEFINE L == LettersOf(c, m)
    <2>1. /\ Count(L, dead') = Count(L, dead) + (IF Head(limbo) \in L THEN 1 ELSE 0)
          /\ Count(L, dead) \in Nat
      BY <1>1, <1>2, <1>3, LetterAppended
    <2>2. Count(L, limbo) = Count(L, limbo') + (IF Head(limbo) \in L THEN 1 ELSE 0) /\ Count(L, limbo') \in Nat
      BY <1>1, <1>2, <1>3, CountTail, CountType
    <2>3. Queued(c, m) = Count(L, dead) + Count(L, limbo) /\ Queued(c, m)' = Count(L, dead') + Count(L, limbo')
      BY DEF Queued
    <2>4. Budget(m)' = Budget(m) /\ replays' = replays /\ Budget(m) \in Nat /\ replays[m] \in Nat
      BY <1>1, <1>2 DEF Budget, CountersTyped
    <2> HIDE DEF L
    <2>5. Queued(c, m)' = Queued(c, m) /\ Queued(c, m) \in Nat
      BY <2>1, <2>2, <2>3
    <2> QED BY <2>4, <2>5
  <1> QED BY <1>1, <1>4, <1>5, <1>6, QuietTally

(* A step that moves no letter and counts nothing. *)
LEMMA TallyStutter ==
  ASSUME NEW c, TallyInv(c), UNCHANGED <<dead, limbo, cmd, deaths, replays, faults, expiries, cancels>>
  PROVE  TallyInv(c)'
  BY DEF TallyInv, CountersTyped, Reported, Owed, Queued, Budget

(* The task's own steps. *)
LEMMA TaskTally ==
  ASSUME NEW c, TallyConfig(c), DeadInv(c), TallyInv(c), DeadInv(c)',
         Dead(c)!Succeeds \/ Dead(c)!Fails \/ Dead(c)!PublishFails
  PROVE  TallyInv(c)'
  <1> DEFINE e == Head(main)
             l == [m |-> e.m, att |-> e.att, ok |-> TRUE]
             x == e.m
  <1>1. CASE Dead(c)!Succeeds
    BY <1>1, TallyStutter DEF Dead!Succeeds, Dead!bounds
  <1>2. CASE Dead(c)!Fails /\ ~Dead(c)!Exhausted(e)
    BY <1>2, TallyStutter DEF Dead!Fails, Dead!bounds
  <1>3. CASE Dead(c)!Fails /\ Dead(c)!Exhausted(e)
    <2>1. /\ main # <<>> /\ dead' = Append(dead, l) /\ deaths' = [deaths EXCEPT ![x] = @ + 1]
          /\ UNCHANGED <<limbo, cmd, replays, faults, expiries, cancels>>
      BY <1>3 DEF Dead!Fails, Dead!bounds
    <2>2. dead \in Seq(DeadMessages(c)) /\ limbo \in Seq(DeadMessages(c)) /\ CountersTyped(c)
      BY DEF DeadInv, QueuesTyped, TallyInv
    <2>3. e \in SourceMessages(c)
      BY <2>1, TailAmong DEF DeadInv, QueuesTyped
    <2>4. l \in DeadMessages(c) /\ l.ok /\ l.m = x /\ x \in c.Msgs
      <3>1. e.m \in c.Msgs /\ e.att \in 0..c.Attempts
        BY <2>3 DEF SourceMessages
      <3> QED BY <3>1, Zenon DEF DeadMessages
    <2>5. \A m : l \in LettersOf(c, m) <=> m = x
      BY <2>4 DEF LettersOf
    <2> HIDE DEF l, x
    <2>6. /\ deaths' \in [c.Msgs -> Nat] /\ deaths'[x] = deaths[x] + 1 /\ deaths[x] \in Nat
          /\ \A m \in c.Msgs : m # x => deaths'[m] = deaths[m]
      BY <2>1, <2>2, <2>4 DEF CountersTyped
    <2>7. CountersTyped(c)'
      BY <2>1, <2>2, <2>6 DEF CountersTyped
    <2>8. /\ Dead(c)!Total(deaths) \in Nat /\ Dead(c)!Total(deaths') \in Nat
          /\ Dead(c)!Total(deaths') = Dead(c)!Total(deaths) - deaths[x] + deaths'[x]
      <3> DEFINE f == deaths
                 g == deaths'
                 D == c.Msgs
      <3>1. f \in [D -> Nat] /\ g \in [D -> Nat] /\ SameBut(f, g, D, x) /\ IsFiniteSet(D) /\ x \in D
        BY <2>2, <2>4, <2>6 DEF SameBut, CountersTyped, TallyConfig, DeadConfig
      <3> HIDE DEF f, g, D
      <3>2. /\ Dead(c)!Total(f) \in Nat /\ Dead(c)!Total(g) \in Nat
            /\ Dead(c)!Total(g) = Dead(c)!Total(f) - f[x] + g[x]
        BY <3>1, TotalChanges
      <3> QED BY <3>2 DEF f, g
    <2>9. Dead(c)!Total(deaths') + Len(dead) + Len(limbo) = Dead(c)!Total(deaths) + Len(dead') + Len(limbo')
      <3>1. Len(dead') = Len(dead) + 1 /\ Len(dead) \in Nat /\ Len(limbo) \in Nat /\ limbo' = limbo
        BY <2>1, <2>2, <2>4, LetterAppended
      <3>2. Dead(c)!Total(deaths') = Dead(c)!Total(deaths) + 1
        BY <2>6, <2>8
      <3> QED BY <2>8, <3>1, <3>2
    <2>10. ASSUME NEW m \in c.Msgs
           PROVE  replays'[m] + Queued(c, m)' + Budget(m) <= replays[m] + Queued(c, m) + Budget(m)'
      <3> DEFINE L == LettersOf(c, m)
                 i == IF m = x THEN 1 ELSE 0
                 b == Budget(m)
                 d == deaths[m]
      <3>1. Count(L, dead') = Count(L, dead) + i /\ Count(L, dead) \in Nat /\ Count(L, limbo) \in Nat
        BY <2>1, <2>2, <2>4, <2>5, LetterAppended, CountType
      <3>2. Queued(c, m) = Count(L, dead) + Count(L, limbo) /\ Queued(c, m)' = Count(L, dead') + Count(L, limbo)
        BY <2>1 DEF Queued
      <3>3. /\ replays' = replays /\ replays[m] \in Nat /\ d \in Nat /\ deaths'[m] = d + i
            /\ faults \in Nat /\ expiries \in Nat /\ cancels \in Nat
        BY <2>1, <2>2, <2>6 DEF CountersTyped
      <3>4. b = d + faults + expiries + cancels /\ Budget(m)' = (d + i) + faults + expiries + cancels
        BY <2>1, <3>3 DEF Budget
      <3>5. i \in Nat
        OBVIOUS
      <3> HIDE DEF L, i, b, d
      <3>6. Queued(c, m)' = Queued(c, m) + i /\ Queued(c, m) \in Nat
        BY <3>1, <3>2, <3>5
      <3>7. Budget(m)' = b + i /\ b \in Nat
        BY <3>3, <3>4, <3>5
      <3> QED BY <3>3, <3>5, <3>6, <3>7 DEF b
    <2> QED BY <2>1, <2>7, <2>9, <2>10, QuietTally
  <1>4. CASE Dead(c)!PublishFails
    <2>1. UNCHANGED <<dead, limbo, cmd, deaths, replays, expiries, cancels>> /\ faults' = faults + 1
      BY <1>4 DEF Dead!PublishFails, Dead!Fault, Dead!ghosts
    <2>2. CountersTyped(c)
      BY DEF TallyInv
    <2>3. faults' \in Nat
      BY <2>1, <2>2 DEF CountersTyped
    <2>4. CountersTyped(c)'
      BY <2>1, <2>2, <2>3 DEF CountersTyped
    <2>5. Dead(c)!Total(deaths') + Len(dead) + Len(limbo) = Dead(c)!Total(deaths) + Len(dead') + Len(limbo')
      BY <2>1
    <2>6. ASSUME NEW m \in c.Msgs
          PROVE  replays'[m] + Queued(c, m)' + Budget(m) <= replays[m] + Queued(c, m) + Budget(m)'
      <3> DEFINE d == deaths[m]
      <3>1. /\ replays' = replays /\ replays[m] \in Nat /\ d \in Nat
            /\ faults \in Nat /\ expiries \in Nat /\ cancels \in Nat
        BY <2>1, <2>2 DEF CountersTyped
      <3>2. Budget(m) = d + faults + expiries + cancels /\ Budget(m)' = d + (faults + 1) + expiries + cancels
        BY <2>1 DEF Budget
      <3>3. Queued(c, m)' = Queued(c, m)
        BY <2>1 DEF Queued
      <3>4. Queued(c, m) \in Nat
        BY QueuedTypes DEF DeadInv
      <3> HIDE DEF d
      <3>5. Budget(m)' = Budget(m) + 1 /\ Budget(m) \in Nat
        BY <3>1, <3>2
      <3> QED BY <3>1, <3>3, <3>4, <3>5
    <2> QED BY <2>1, <2>4, <2>5, <2>6, QuietTally
  <1> QED BY <1>1, <1>2, <1>3, <1>4

(* To begin with there is one letter, without a payload. *)
LEMMA TallyInit ==
  ASSUME NEW c, TallyConfig(c), Dead(c)!Init
  PROVE  TallyInv(c)
  <1> DEFINE a == [m |-> "alien", att |-> 0, ok |-> FALSE]
             f == [q \in c.Commands |-> InReport(c, cmd[q])]
  <1>1. /\ dead = <<a>> /\ limbo = <<>> /\ cmd = [q \in c.Commands |-> Dead(c)!Idle]
        /\ deaths = [m \in c.Msgs |-> 0] /\ replays = deaths /\ faults = 0 /\ expiries = 0 /\ cancels = 0
    BY DEF Dead!Init
  <1>2. DeadInv(c) /\ IsFiniteSet(c.Commands) /\ IsFiniteSet(c.Msgs)
    BY DeadInit DEF TallyConfig, DeadConfig
  <1>3. \A q \in c.Commands : cmd[q].hand = <<>> /\ cmd[q].pc = "new" /\ cmd[q].done = 0
    BY <1>1 DEF Dead!Idle
  <1>4. CountersTyped(c)
    BY <1>1, <1>3 DEF CountersTyped
  <1>5. \A A : Count(A, <<>>) = 0
    <2>1. <<>> \in Seq(DeadMessages(c))
      OBVIOUS
    <2> QED BY <2>1, CountType
  <1>6. \A q \in c.Commands : InReport(c, cmd[q]) = 0 /\ \A m : ToSend(c, m, cmd[q]) = 0
    BY <1>3, <1>5 DEF InReport, ToSend
  <1>7. Dead(c)!Total(deaths) = 0
    BY <1>1, <1>2, TotalType
  <1>8. Dead(c)!Total(f) = 0
    <2>1. f \in [c.Commands -> Nat] /\ \A q \in c.Commands : f[q] = 0
      BY <1>6
    <2> HIDE DEF f
    <2> QED BY <1>2, <2>1, TotalType
  <1>9. Reported(c)
    <2>1. Len(dead) = 1 /\ Len(limbo) = 0
      BY <1>1
    <2> QED BY <1>7, <1>8, <2>1 DEF Reported
  <1>10. ASSUME NEW m \in c.Msgs PROVE Owed(c, m)
    <2> DEFINE g == [q \in c.Commands |-> ToSend(c, m, cmd[q])]
               L == LettersOf(c, m)
               none == <<>>
    <2>1. Dead(c)!Total(g) = 0
      <3>1. g \in [c.Commands -> Nat] /\ \A q \in c.Commands : g[q] = 0
        BY <1>6
      <3> HIDE DEF g
      <3> QED BY <1>2, <3>1, TotalType
    <2>2. a \notin L
      BY DEF LettersOf
    <2> HIDE DEF a
    <2>3. a \in DeadMessages(c) /\ none \in Seq(DeadMessages(c)) /\ dead = Append(none, a)
      <3>1. dead \in Seq(DeadMessages(c))
        BY <1>2 DEF DeadInv, QueuesTyped
      <3>2. a = dead[1] /\ 1 \in DOMAIN dead
        BY <1>1
      <3> QED BY <1>1, <3>1, <3>2
    <2>4. Count(L, dead) = Count(L, none) + 0
      <3> HIDE DEF none
      <3> QED BY <2>2, <2>3, CountAppend
    <2>5. Count(L, dead) = 0 /\ Count(L, limbo) = 0
      BY <1>1, <1>5, <2>4
    <2>6. Queued(c, m) = 0 /\ replays[m] = 0 /\ Budget(m) = 0
      BY <1>1, <2>5 DEF Queued, Budget
    <2> QED BY <2>1, <2>6 DEF Owed
  <1> QED BY <1>4, <1>9, <1>10 DEF TallyInv

(* Every step keeps the counts. *)
LEMMA TallyKept ==
  ASSUME NEW c, TallyConfig(c), DeadInv(c), TallyInv(c), [Dead(c)!Next]_(Dead(c)!vars)
  PROVE  TallyInv(c)'
  <1>1. DeadInv(c)'
    BY DeadKept DEF TallyConfig
  <1>2. CASE UNCHANGED Dead(c)!vars
    BY <1>2, TallyStutter DEF Dead!vars, Dead!queues, Dead!ghosts, Dead!bounds
  <1>3. ASSUME NEW k \in c.Commands, Dead(c)!Command(k)
        PROVE  TallyInv(c)'
    BY <1>1, <1>3, BeginTally, SettleTally, SendTally, EndTally, CancelTally, ExpireTally DEF Dead!Command, Dead!Step
  <1> QED BY <1>1, <1>2, <1>3, TaskTally, ExpireLimboTally DEF Dead!Next

(* What the invariant says of the counts. *)
LEMMA TallyImplies ==
  ASSUME NEW c, TallyConfig(c), DeadInv(c), TallyInv(c)
  PROVE  Dead(c)!ReplayBounded /\ Dead(c)!ReportTrue
  <1>1. IsFiniteSet(c.Commands) /\ CountersTyped(c) /\ cmd \in [c.Commands -> CommandStates(c)]
    BY DEF TallyConfig, TallyInv, DeadInv, CommandsTyped
  <1>2. \A k \in c.Commands : cmd[k].hand \in Seq(InHands(c)) /\ cmd[k] \in CommandStates(c)
    BY <1>1 DEF CommandStates
  <1>3. Dead(c)!ReportTrue
    <2>1. \A k \in c.Commands : InReport(c, cmd[k]) = Dead(c)!Cardinality(Dead(c)!Held(k)) + cmd[k].done
      <3> SUFFICES ASSUME NEW k \in c.Commands
                   PROVE  Count(Holding(c), cmd[k].hand) = Dead(c)!Cardinality(Dead(c)!Held(k))
        BY DEF InReport
      <3> DEFINE h == cmd[k].hand
      <3>1. \A i \in DOMAIN h : h[i] \in InHands(c)
        BY <1>2
      <3>2. Dead(c)!Held(k) = {i \in DOMAIN h : h[i] \in Holding(c)}
        BY <3>1 DEF Dead!Held, Holding
      <3>3. IsFiniteSet({i \in DOMAIN h : h[i] \in Holding(c)})
        BY <1>2, CountType
      <3> QED BY <3>2, <3>3, DeadCardinality DEF Count
    <2>2. [k \in c.Commands |-> InReport(c, cmd[k])] =
            [k \in c.Commands |-> Dead(c)!Cardinality(Dead(c)!Held(k)) + cmd[k].done]
      BY <2>1
    <2> QED BY <2>2 DEF TallyInv, Reported, Dead!ReportTrue
  <1>4. ASSUME NEW m \in c.Msgs
        PROVE  replays[m] <= Budget(m)
    <2> DEFINE g == [q \in c.Commands |-> ToSend(c, m, cmd[q])]
    <2>1. Dead(c)!Total(g) \in Nat
      <3>1. g \in [c.Commands -> Nat]
        BY <1>1, <1>2, TallyTypes DEF CountersTyped
      <3> HIDE DEF g
      <3> QED BY <1>1, <3>1, TotalType
    <2>2. Queued(c, m) \in Nat
      BY QueuedTypes DEF DeadInv
    <2>3. replays[m] \in Nat /\ Budget(m) \in Nat
      BY <1>1, SumOfFour DEF CountersTyped, Budget
    <2>4. replays[m] + Queued(c, m) + Dead(c)!Total(g) <= Budget(m)
      BY DEF TallyInv, Owed
    <2> HIDE DEF g
    <2> QED BY <2>1, <2>2, <2>3, <2>4
  <1> QED BY <1>3, <1>4 DEF Dead!ReplayBounded, Budget

--------------------------------------------------------------------------------
(* A letter that is in a queue, leased or in the hand of a command. *)
HasLetter(rec, l) == \E h \in Listed(rec.hand) : h.e = l
Circulates(c, l) ==
  l \in Listed(dead) \/ l \in Listed(limbo) \/ \E k \in c.Commands : HasLetter(cmd[k], l)

(* The entries of a message in the source, and those with attempts left. *)
Entries(c, m) == {s \in SourceMessages(c) : s.m = m}
Young(c, m) == {s \in Entries(c, m) : ~Dead(c)!Exhausted(s)}

(* What died had no attempts left. *)
SpentLetters(c) == \A l \in DeadMessages(c) : Circulates(c, l) /\ l.ok => Dead(c)!Exhausted(l)
(* A message with attempts left is in the source once, has never died and was never replayed. *)
FirstLife(c, m) ==
  Count(Young(c, m), main) > 0 =>
    /\ Count(Entries(c, m), main) = 1 /\ replays[m] = 0
    /\ \A l \in DeadMessages(c) : Circulates(c, l) /\ l.ok => l.m # m

LivesInv(c) == SpentLetters(c) /\ \A m \in c.Msgs : FirstLife(c, m)

(* The more of a sequence counts, the higher the count. *)
LEMMA CountMore ==
  ASSUME NEW S, NEW s \in Seq(S), NEW A, NEW B, A \subseteq B
  PROVE  /\ Count(A, s) <= Count(B, s) /\ Count(A, s) \in Nat /\ Count(B, s) \in Nat
         /\ \A i \in DOMAIN s : s[i] \in A => Count(A, s) > 0
  <1> DEFINE I == {i \in DOMAIN s : s[i] \in A}
             J == {i \in DOMAIN s : s[i] \in B}
  <1>1. /\ IsFiniteSet(I) /\ IsFiniteSet(J) /\ Count(A, s) = Cardinality(I) /\ Count(B, s) = Cardinality(J)
        /\ Cardinality(I) \in Nat /\ Cardinality(J) \in Nat
    BY CountType DEF Count
  <1>2. I \subseteq J
    OBVIOUS
  <1>3. \A i \in DOMAIN s : s[i] \in A => I # {}
    OBVIOUS
  <1> HIDE DEF I, J
  <1>4. Cardinality(I) <= Cardinality(J)
    BY <1>1, <1>2, FS_Subset
  <1>5. Cardinality(I) = 0 => I = {}
    BY <1>1, FS_EmptySet
  <1> QED BY <1>1, <1>3, <1>4, <1>5

(* A step that makes no letter and moves nothing to the source. *)
LEMMA NothingNew ==
  ASSUME NEW c, LivesInv(c), \A l \in DeadMessages(c) : Circulates(c, l)' => Circulates(c, l),
         main' = main, replays' = replays
  PROVE  LivesInv(c)'
  BY DEF LivesInv, SpentLetters, FirstLife

(* What a step of one command may leave in circulation. *)
LEMMA Circulated ==
  ASSUME NEW c, NEW k \in c.Commands, \A q \in c.Commands : q # k => cmd'[q] = cmd[q],
         \A l : l \in Listed(dead') => Circulates(c, l), \A l : l \in Listed(limbo') => Circulates(c, l),
         \A l : HasLetter(cmd'[k], l) => Circulates(c, l), NEW l, Circulates(c, l)'
  PROVE  Circulates(c, l)
  BY DEF Circulates

(* The queues after a letter in circulation was put back. *)
LEMMA PutBack ==
  ASSUME NEW c, QueuesTyped(c), NEW e \in DeadMessages(c), Circulates(c, e),
         \/ dead' = dead /\ limbo' = limbo
         \/ dead' = Append(dead, e) /\ limbo' = limbo
         \/ limbo' = Append(limbo, e) /\ dead' = dead,
         NEW l
  PROVE  /\ l \in Listed(dead') => Circulates(c, l)
         /\ l \in Listed(limbo') => Circulates(c, l)
  <1>1. Listed(Append(dead, e)) = Listed(dead) \cup {e} /\ Listed(Append(limbo, e)) = Listed(limbo) \cup {e}
    BY OneMore DEF QueuesTyped
  <1>2. l \in Listed(dead) => Circulates(c, l)
    BY DEF Circulates
  <1>3. l \in Listed(limbo) => Circulates(c, l)
    BY DEF Circulates
  <1> QED BY <1>1, <1>2, <1>3

(* A command settles a delivery, sends it or is over. *)
LEMMA StepLives ==
  ASSUME NEW c, DeadConfig(c), DeadInv(c), LivesInv(c), NEW k \in c.Commands,
         Dead(c)!Invalid(k) \/ Dead(c)!SendFails(k) \/ Dead(c)!Ack(k) \/ Dead(c)!AckFails(k)
  PROVE  LivesInv(c)'
  <1> DEFINE d == Head(cmd[k].hand)
             h == cmd[k].hand
  <1>1. /\ cmd[k].hand # <<>> /\ UNCHANGED <<main, replays>>
        /\ \E count : Dead(c)!NextOne(k, count)
    BY DEF Dead!Invalid, Dead!SendFails, Dead!Ack, Dead!AckFails, Dead!CanAck, Dead!At, Dead!ghosts,
           Dead!bounds, Dead!queues
  <1>2. CommandsTyped(c) /\ QueuesTyped(c) /\ h \in Seq(InHands(c))
    BY DEF DeadInv, CommandsTyped, CommandStates
  <1>3. cmd'[k].hand = Tail(h) /\ \A q \in c.Commands : q # k => cmd'[q] = cmd[q]
    BY <1>1, <1>2, NextOneIs
  <1>4. \/ dead' = dead /\ limbo' = limbo
        \/ dead' = Append(dead, d.e) /\ limbo' = limbo
        \/ limbo' = Append(limbo, d.e) /\ dead' = dead
    BY DEF Dead!Invalid, Dead!SendFails, Dead!Ack, Dead!AckFails, Dead!GiveBack, Dead!RetryFails, Dead!Cur, Dead!queues
  <1>5. d \in InHands(c) /\ d \in Listed(h) /\ \A x \in Listed(Tail(h)) : x \in Listed(h)
    BY <1>1, <1>2, FirstAndRest
  <1>6. d.e \in DeadMessages(c)
    <2> HIDE DEF d
    <2> QED BY <1>5 DEF InHands
  <1>7. \A l : HasLetter(cmd[k], l) => Circulates(c, l)
    BY DEF Circulates
  <1>8. Circulates(c, d.e)
    <2>1. HasLetter(cmd[k], d.e)
      BY <1>5 DEF HasLetter
    <2> QED BY <1>7, <2>1
  <1>9. \A l : HasLetter(cmd'[k], l) => Circulates(c, l)
    <2>1. \A l : HasLetter(cmd'[k], l) => HasLetter(cmd[k], l)
      BY <1>3, <1>5 DEF HasLetter
    <2> QED BY <1>7, <2>1
  <1> HIDE DEF d, h
  <1>10. \A l : /\ l \in Listed(dead') => Circulates(c, l)
                /\ l \in Listed(limbo') => Circulates(c, l)
    BY <1>2, <1>4, <1>6, <1>8, PutBack
  <1>11. \A l \in DeadMessages(c) : Circulates(c, l)' => Circulates(c, l)
    BY <1>3, <1>9, <1>10, Circulated
  <1> QED BY <1>1, <1>11, NothingNew

(* The types of the queues and of what a command has in hand. *)
LEMMA HandTyped ==
  ASSUME NEW c, DeadInv(c), NEW k \in c.Commands
  PROVE  /\ cmd \in [c.Commands -> CommandStates(c)] /\ cmd[k].hand \in Seq(InHands(c))
         /\ cmd[k] \in CommandStates(c) /\ QueuesTyped(c)
         /\ dead \in Seq(DeadMessages(c)) /\ limbo \in Seq(DeadMessages(c))
         /\ Len(dead) \in Nat /\ cancels \in Nat
  <1>1. cmd \in [c.Commands -> CommandStates(c)]
    BY DEF DeadInv, CommandsTyped
  <1>2. cmd[k] \in CommandStates(c)
    BY <1>1
  <1>3. cmd[k].hand \in Seq(InHands(c))
    BY <1>2 DEF CommandStates
  <1>4. QueuesTyped(c) /\ cancels \in Nat
    BY DEF DeadInv, CountsTyped
  <1>5. dead \in Seq(DeadMessages(c)) /\ limbo \in Seq(DeadMessages(c))
    BY <1>4 DEF QueuesTyped
  <1>6. Len(dead) \in Nat
    BY <1>5
  <1> QED BY <1>1, <1>2, <1>3, <1>4, <1>5, <1>6

(* A command that takes, drops or gives up letters leaves the others alone. *)
LEMMA OneCommandMoves ==
  ASSUME NEW c, NEW k, cmd \in [c.Commands -> CommandStates(c)],
         \/ \E op \in Dead(c)!Ops : Dead(c)!Begin(k, op)
         \/ Dead(c)!End(k) \/ Dead(c)!Cancel(k) \/ Dead(c)!ExpireHeld(k)
  PROVE  /\ UNCHANGED <<main, replays>>
         /\ \A q \in c.Commands : q # k => cmd'[q] = cmd[q]
  <1>1. CASE \E op \in Dead(c)!Ops : Dead(c)!Begin(k, op)
    BY <1>1 DEF Dead!Begin, Dead!ghosts
  <1>2. CASE Dead(c)!End(k)
    BY <1>2, SMTT(20) DEF Dead!End, Dead!ghosts, Dead!queues
  <1>3. CASE Dead(c)!Cancel(k)
    BY <1>3 DEF Dead!Cancel, Dead!ghosts
  <1>4. CASE Dead(c)!ExpireHeld(k)
    BY <1>4 DEF Dead!ExpireHeld, Dead!ghosts
  <1> QED BY <1>1, <1>2, <1>3, <1>4, Zenon

(* A command takes letters, drops them or is over; a lease runs out. *)
LEMMA MovesLives ==
  ASSUME NEW c, DeadConfig(c), DeadInv(c), DeadInv(c)', LivesInv(c), NEW k \in c.Commands,
         \/ \E op \in Dead(c)!Ops : Dead(c)!Begin(k, op)
         \/ Dead(c)!End(k) \/ Dead(c)!Cancel(k) \/ Dead(c)!ExpireHeld(k)
  PROVE  LivesInv(c)'
  <1> DEFINE h == cmd[k].hand
  <1>1. /\ cmd \in [c.Commands -> CommandStates(c)] /\ h \in Seq(InHands(c)) /\ QueuesTyped(c)
        /\ dead \in Seq(DeadMessages(c)) /\ limbo \in Seq(DeadMessages(c)) /\ cmd[k] \in CommandStates(c)
        /\ Len(dead) \in Nat /\ cancels \in Nat
    BY HandTyped, Zenon
  <1>2. UNCHANGED <<main, replays>>
    BY <1>1, OneCommandMoves, Zenon
  <1>3. \A q \in c.Commands : q # k => cmd'[q] = cmd[q]
    BY <1>1, OneCommandMoves, Zenon
  <1>4. \A l : HasLetter(cmd[k], l) => Circulates(c, l)
    BY DEF Circulates
  <1>5. \A i \in DOMAIN h : Circulates(c, h[i].e)
    BY <1>4 DEF HasLetter, Listed
  <1>6. \A i \in DOMAIN dead : Circulates(c, dead[i])
    BY DEF Circulates, Listed
  <1>7. \A l : (l \in Listed(dead) => Circulates(c, l)) /\ (l \in Listed(limbo) => Circulates(c, l))
    BY DEF Circulates
  <1>8. SUFFICES /\ \A l : l \in Listed(dead') => Circulates(c, l)
                 /\ \A l : l \in Listed(limbo') => Circulates(c, l)
                 /\ \A l : HasLetter(cmd'[k], l) => Circulates(c, l)
    BY <1>2, <1>3, Circulated, NothingNew
  <1>9. ASSUME NEW op \in Dead(c)!Ops, Dead(c)!Begin(k, op)
        PROVE  /\ \A l : l \in Listed(dead') => Circulates(c, l)
               /\ \A l : l \in Listed(limbo') => Circulates(c, l)
               /\ \A l : HasLetter(cmd'[k], l) => Circulates(c, l)
    <2> DEFINE n == Dead(c)!Take(c.Limit)
               got == [i \in 1..n |-> [e |-> dead[i], held |-> TRUE]]
               new == [Dead(c)!Idle EXCEPT !.pc = "next", !.op = op, !.hand = got]
    <2>1. cmd' = [cmd EXCEPT ![k] = new] /\ dead' = SubSeq(dead, n + 1, Len(dead)) /\ limbo' = limbo
      BY <1>9 DEF Dead!Begin
    <2>2. n \in Nat /\ n <= Len(dead)
      BY <1>1 DEF Dead!Take, DeadConfig
    <2>3. new.hand = got
      BY DEF Dead!Idle
    <2> HIDE DEF n
    <2>4. DOMAIN got = 1..n /\ \A i \in 1..n : got[i].e = dead[i] /\ i \in DOMAIN dead
      BY <1>1, <2>2
    <2> HIDE DEF got, new
    <2>5. cmd'[k].hand = got
      BY <1>1, <2>1, <2>3
    <2>6. \A l : HasLetter(cmd'[k], l) => Circulates(c, l)
      BY <1>6, <2>4, <2>5 DEF HasLetter, Listed
    <2>7. \A i \in DOMAIN dead' : i + n \in DOMAIN dead /\ dead'[i] = dead[i + n]
      BY <1>1, <2>1, <2>2
    <2>8. \A l : l \in Listed(dead') => Circulates(c, l)
      BY <1>6, <2>7 DEF Listed
    <2> QED BY <1>7, <2>1, <2>6, <2>8, Zenon
  <1>10. CASE Dead(c)!End(k)
    <2>1. dead' = dead /\ limbo' = limbo /\ cmd' = [cmd EXCEPT ![k].pc = Dead(c)!Completion(k)]
      BY <1>10 DEF Dead!End, Dead!queues
    <2>2. cmd'[k].hand = h
      BY <1>1, <2>1 DEF CommandStates
    <2> QED BY <1>4, <1>7, <2>1, <2>2 DEF HasLetter
  <1>11. CASE Dead(c)!Cancel(k)
    <2>1. /\ dead' = dead /\ cmd' = [cmd EXCEPT ![k].pc = "cancelled", ![k].hand = <<>>]
          /\ cancels < c.MaxCancels
      BY <1>11 DEF Dead!Cancel
    <2>2. c.Leased
      BY <1>1, <2>1, SMTT(20) DEF DeadConfig
    <2>3. PICK q \in Dead(c)!Orders({i \in DOMAIN h : h[i].held}) : limbo' = limbo \o [i \in DOMAIN q |-> h[q[i]].e]
      BY <1>11, <2>2, Zenon DEF Dead!Cancel, Dead!Held
    <2> DEFINE t == [i \in DOMAIN q |-> h[q[i]].e]
               S == {i \in DOMAIN h : h[i].held}
    <2>4. t \in Seq(DeadMessages(c)) /\ limbo' = limbo \o t
      BY <1>1, <2>3, LeasedAgain
    <2>5. \A i \in DOMAIN q : q[i] \in S
      <3>1. q \in Dead(c)!Orders(S)
        OBVIOUS
      <3> HIDE DEF S
      <3>2. q \in [1..Dead(c)!Cardinality(S) -> S]
        BY <3>1, OrdersCover
      <3> QED BY <3>2
    <2>6. \A i \in DOMAIN t : Circulates(c, t[i])
      BY <1>5, <2>5
    <2> HIDE DEF t
    <2>7. \A i \in DOMAIN limbo' : \/ i \in DOMAIN limbo /\ limbo'[i] = limbo[i]
                                   \/ i - Len(limbo) \in DOMAIN t /\ limbo'[i] = t[i - Len(limbo)]
      BY <1>1, <2>4
    <2>8. \A l : l \in Listed(limbo') => Circulates(c, l)
      BY <1>7, <2>6, <2>7 DEF Listed
    <2>9. cmd'[k].hand = <<>>
      BY <1>1, <2>1 DEF CommandStates
    <2>10. \A l : ~HasLetter(cmd'[k], l)
      BY <2>9 DEF HasLetter, Listed
    <2> QED BY <1>7, <2>1, <2>8, <2>10
  <1>12. CASE Dead(c)!ExpireHeld(k)
    <2>1. PICK i \in DOMAIN h : h[i].held /\ cmd' = [cmd EXCEPT ![k].hand[i].held = FALSE]
                                /\ dead' = Append(dead, h[i].e)
      BY <1>12 DEF Dead!ExpireHeld
    <2>2. limbo' = limbo
      BY <1>12 DEF Dead!ExpireHeld
    <2>3. h[i] \in InHands(c)
      BY <1>1
    <2> DEFINE x == [h[i] EXCEPT !.held = FALSE]
    <2>4. x.e = h[i].e /\ h[i].e \in DeadMessages(c)
      BY <2>3 DEF InHands
    <2>5. cmd'[k].hand = [h EXCEPT ![i] = x]
      BY <1>1, <2>1 DEF CommandStates
    <2> HIDE DEF x
    <2>6. DOMAIN cmd'[k].hand = DOMAIN h /\ \A j \in DOMAIN h : cmd'[k].hand[j].e = h[j].e
      BY <2>4, <2>5
    <2>7. \A l : HasLetter(cmd'[k], l) => Circulates(c, l)
      BY <1>5, <2>6 DEF HasLetter, Listed
    <2>8. Circulates(c, h[i].e)
      BY <1>5
    <2> HIDE DEF h
    <2>9. \A l : /\ l \in Listed(dead') => Circulates(c, l)
                 /\ l \in Listed(limbo') => Circulates(c, l)
      BY <1>1, <2>1, <2>2, <2>4, <2>8, PutBack
    <2> QED BY <2>7, <2>9
  <1> QED BY <1>9, <1>10, <1>11, <1>12

(* A lease that outlived its command runs out. *)
LEMMA ExpireLimboLives ==
  ASSUME NEW c, DeadInv(c), LivesInv(c), Dead(c)!ExpireLimbo
  PROVE  LivesInv(c)'
  <1>1. limbo # <<>> /\ limbo' = Tail(limbo) /\ dead' = Append(dead, Head(limbo)) /\ UNCHANGED <<main, cmd, replays>>
    BY DEF Dead!ExpireLimbo, Dead!ghosts
  <1>2. dead \in Seq(DeadMessages(c)) /\ limbo \in Seq(DeadMessages(c))
    BY DEF DeadInv, QueuesTyped
  <1>3. Head(limbo) \in DeadMessages(c) /\ Listed(limbo) = {Head(limbo)} \cup Listed(Tail(limbo))
    BY <1>1, <1>2, FirstAndRest
  <1>4. Listed(dead') = Listed(dead) \cup {Head(limbo)}
    BY <1>1, <1>2, <1>3, OneMore
  <1>5. \A l \in DeadMessages(c) : Circulates(c, l)' => Circulates(c, l)
    BY <1>1, <1>3, <1>4 DEF Circulates
  <1> QED BY <1>1, <1>5, NothingNew

(* A message is replayed: it has no attempts left, and no entry of it has. *)
LEMMA SendLives ==
  ASSUME NEW c, DeadConfig(c), DeadInv(c), CountersTyped(c), LivesInv(c), NEW k \in c.Commands, Dead(c)!Send(k)
  PROVE  LivesInv(c)'
  <1> DEFINE d == Head(cmd[k].hand)
             e == d.e
             x == Dead(c)!ReplayEnvelope(e)
  <1>1. /\ cmd[k].hand # <<>> /\ e.ok /\ main' = Append(main, x) /\ cmd' = [cmd EXCEPT ![k].pc = "ack"]
        /\ replays' = [replays EXCEPT ![e.m] = @ + 1] /\ UNCHANGED <<dead, limbo>>
    BY DEF Dead!Send, Dead!At, Dead!Cur
  <1>2. /\ cmd \in [c.Commands -> CommandStates(c)] /\ cmd[k].hand \in Seq(InHands(c))
        /\ main \in Seq(SourceMessages(c)) /\ replays \in [c.Msgs -> Nat]
    BY DEF DeadInv, CommandsTyped, CommandStates, QueuesTyped, CountersTyped
  <1>3. d \in InHands(c) /\ d \in Listed(cmd[k].hand)
    BY <1>1, <1>2, FirstAndRest
  <1>4. e \in DeadMessages(c) /\ Circulates(c, e)
    <2>1. HasLetter(cmd[k], e)
      BY <1>3 DEF HasLetter
    <2>2. e \in DeadMessages(c)
      <3> HIDE DEF d
      <3> QED BY <1>3 DEF InHands
    <2> HIDE DEF e
    <2> QED BY <2>1, <2>2 DEF Circulates
  <1> HIDE DEF e
  <1>5. Dead(c)!Exhausted(e)
    BY <1>1, <1>4 DEF LivesInv, SpentLetters
  <1>6. x \in SourceMessages(c) /\ x.m = e.m /\ Dead(c)!Exhausted(x) /\ e.m \in c.Msgs
    BY <1>1, <1>4, <1>5 DEF DeadMessages, SourceMessages, Dead!ReplayEnvelope, Dead!Exhausted
  <1> HIDE DEF x
  <1>7. \A l : Circulates(c, l)' => Circulates(c, l)
    <2>1. \A q \in c.Commands : cmd'[q].hand = cmd[q].hand
      BY <1>1, <1>2 DEF CommandStates
    <2> QED BY <1>1, <2>1 DEF Circulates, HasLetter
  <1>8. SpentLetters(c)'
    BY <1>7 DEF LivesInv, SpentLetters
  <1>9. ASSUME NEW m \in c.Msgs PROVE FirstLife(c, m)'
    <2> DEFINE Y == Young(c, m)
               E == Entries(c, m)
    <2>1. Count(Y, main') = Count(Y, main) + (IF x \in Y THEN 1 ELSE 0) /\ Count(Y, main) \in Nat
      BY <1>1, <1>2, <1>6, CountAppend, CountType
    <2>2. Count(E, main') = Count(E, main) + (IF x \in E THEN 1 ELSE 0) /\ Count(E, main) \in Nat
      BY <1>1, <1>2, <1>6, CountAppend, CountType
    <2>3. x \notin Y /\ (x \in E <=> m = e.m)
      BY <1>6 DEF Young, Entries
    <2> HIDE DEF Y, E
    <2>4. Count(Y, main') = Count(Y, main)
      BY <2>1, <2>3
    <2>5. CASE m = e.m
      <3>1. FirstLife(c, m)
        BY DEF LivesInv
      <3>2. ~(Count(Y, main) > 0)
        BY <1>1, <1>4, <2>5, <3>1 DEF FirstLife, Y
      <3> QED BY <2>4, <3>2 DEF FirstLife, Y
    <2>6. CASE m # e.m
      <3>1. Count(E, main') = Count(E, main) /\ replays'[m] = replays[m]
        BY <1>1, <1>2, <2>2, <2>3, <2>6
      <3>2. FirstLife(c, m)
        BY DEF LivesInv
      <3> QED BY <1>7, <2>4, <3>1, <3>2 DEF FirstLife, Y, E
    <2> QED BY <2>5, <2>6
  <1> QED BY <1>8, <1>9 DEF LivesInv

(* The task's own steps: what dies has no attempts left, and no other entry of it is left. *)
LEMMA TaskLives ==
  ASSUME NEW c, DeadConfig(c), DeadInv(c), CountersTyped(c), LivesInv(c),
         Dead(c)!Succeeds \/ Dead(c)!Fails \/ Dead(c)!PublishFails
  PROVE  LivesInv(c)'
  <1> DEFINE e == Head(main)
             t == Tail(main)
  <1>1. main # <<>> /\ UNCHANGED <<limbo, cmd, replays>>
    BY DEF Dead!Succeeds, Dead!Fails, Dead!PublishFails, Dead!ghosts
  <1>2. main \in Seq(SourceMessages(c)) /\ dead \in Seq(DeadMessages(c)) /\ replays \in [c.Msgs -> Nat]
    BY DEF DeadInv, QueuesTyped, CountersTyped
  <1>3. e \in SourceMessages(c) /\ t \in Seq(SourceMessages(c))
    BY <1>1, <1>2
  <1>4. e.m \in c.Msgs /\ e.att \in Nat /\ e.att \in 0..c.Attempts /\ c.Attempts \in Nat
    BY <1>3 DEF SourceMessages, DeadConfig
  <1>5. \A A : /\ Count(A, main) = Count(A, t) + (IF e \in A THEN 1 ELSE 0) /\ Count(A, t) \in Nat
               /\ Count(A, main) \in Nat
    BY <1>1, <1>2, <1>3, CountTail, CountType
  <1>6. \A m : Count(Young(c, m), t) <= Count(Entries(c, m), t)
    BY <1>3, CountMore DEF Young
  <1>7. \A m : (e \in Entries(c, m) <=> m = e.m) /\ (e \in Young(c, m) => e \in Entries(c, m))
    BY <1>3 DEF Entries, Young
  <1> HIDE DEF t
  <1>8. CASE main' = t /\ dead' = dead
    <2>1. \A l : Circulates(c, l)' => Circulates(c, l)
      BY <1>1, <1>8 DEF Circulates
    <2>2. ASSUME NEW m \in c.Msgs PROVE FirstLife(c, m)'
      <3> DEFINE Y == Young(c, m)
                 E == Entries(c, m)
      <3>1. FirstLife(c, m)
        BY DEF LivesInv
      <3>2. /\ Count(Y, main) = Count(Y, t) + (IF e \in Y THEN 1 ELSE 0) /\ Count(Y, t) \in Nat
            /\ Count(E, main) = Count(E, t) + (IF e \in E THEN 1 ELSE 0) /\ Count(E, t) \in Nat
            /\ Count(Y, t) <= Count(E, t)
        BY <1>5, <1>6
      <3> HIDE DEF Y, E
      <3>3. Count(Y, t) > 0 => Count(Y, main) > 0
        BY <3>2
      <3>4. Count(Y, t) > 0 /\ Count(E, main) = 1 => Count(E, t) = 1
        BY <3>2
      <3> QED BY <1>1, <1>8, <2>1, <3>1, <3>3, <3>4 DEF FirstLife, Y, E
    <2> QED BY <2>1, <2>2 DEF LivesInv, SpentLetters
  <1>9. ASSUME NEW x \in SourceMessages(c), main' = Append(t, x), dead' = dead, x.m = e.m,
               Dead(c)!Exhausted(e) => Dead(c)!Exhausted(x)
        PROVE  LivesInv(c)'
    <2>1. \A l : Circulates(c, l)' => Circulates(c, l)
      BY <1>1, <1>9 DEF Circulates
    <2>2. ASSUME NEW m \in c.Msgs PROVE FirstLife(c, m)'
      <3> DEFINE Y == Young(c, m)
                 E == Entries(c, m)
      <3>1. FirstLife(c, m)
        BY DEF LivesInv
      <3>2. /\ Count(Y, main) = Count(Y, t) + (IF e \in Y THEN 1 ELSE 0) /\ Count(Y, t) \in Nat
            /\ Count(E, main) = Count(E, t) + (IF e \in E THEN 1 ELSE 0) /\ Count(E, t) \in Nat
        BY <1>5
      <3>3. /\ Count(Y, main') = Count(Y, t) + (IF x \in Y THEN 1 ELSE 0)
            /\ Count(E, main') = Count(E, t) + (IF x \in E THEN 1 ELSE 0)
        BY <1>3, <1>9, CountAppend DEF t
      <3>4. (x \in E <=> e \in E) /\ (x \in Y => e \in Y)
        BY <1>3, <1>9 DEF Entries, Young
      <3> HIDE DEF Y, E
      <3>5. Count(E, main') = Count(E, main) /\ (Count(Y, main') > 0 => Count(Y, main) > 0)
        BY <3>2, <3>3, <3>4
      <3> QED BY <1>1, <2>1, <3>1, <3>5 DEF FirstLife, Y, E
    <2> QED BY <2>1, <2>2 DEF LivesInv, SpentLetters
  <1>10. CASE Dead(c)!Succeeds
    BY <1>8, <1>10 DEF Dead!Succeeds, t
  <1>11. CASE Dead(c)!Fails /\ ~Dead(c)!Exhausted(e)
    <2> DEFINE x == Dead(c)!Retried(e)
    <2>1. main' = Append(t, x) /\ dead' = dead
      BY <1>11 DEF Dead!Fails, t
    <2>2. e.att + 1 <= c.Attempts
      BY <1>4, <1>11 DEF Dead!Exhausted
    <2>3. x \in SourceMessages(c) /\ x.m = e.m
      BY <1>3, <1>4, <2>2 DEF SourceMessages, Dead!Retried
    <2> QED BY <1>9, <1>11, <2>1, <2>3
  <1>12. CASE Dead(c)!PublishFails
    <2> DEFINE x == [e EXCEPT !.att = c.Attempts]
    <2>1. main' = Append(t, x) /\ dead' = dead
      BY <1>12 DEF Dead!PublishFails, t
    <2>2. x \in SourceMessages(c) /\ x.m = e.m /\ Dead(c)!Exhausted(x)
      BY <1>3, <1>4 DEF SourceMessages, Dead!Exhausted
    <2> QED BY <1>9, <2>1, <2>2
  <1>13. CASE Dead(c)!Fails /\ Dead(c)!Exhausted(e)
    <2> DEFINE l == [m |-> e.m, att |-> e.att, ok |-> TRUE]
    <2>1. main' = t /\ dead' = Append(dead, l)
      BY <1>13 DEF Dead!Fails, t
    <2>2. l \in DeadMessages(c) /\ l.m = e.m /\ l.att = e.att
      BY <1>4, Zenon DEF DeadMessages
    <2>3. Dead(c)!Exhausted(l)
      BY <1>13, <2>2 DEF Dead!Exhausted
    <2> HIDE DEF l
    <2>4. \A y : Circulates(c, y)' => Circulates(c, y) \/ y = l
      <3>1. Listed(dead') = Listed(dead) \cup {l}
        BY <1>2, <2>1, <2>2, OneMore
      <3> QED BY <1>1, <3>1 DEF Circulates
    <2>5. SpentLetters(c)'
      BY <2>3, <2>4 DEF LivesInv, SpentLetters
    <2>6. ASSUME NEW m \in c.Msgs PROVE FirstLife(c, m)'
      <3> DEFINE Y == Young(c, m)
                 E == Entries(c, m)
      <3>1. FirstLife(c, m)
        BY DEF LivesInv
      <3>2. /\ Count(Y, main) = Count(Y, t) + (IF e \in Y THEN 1 ELSE 0) /\ Count(Y, t) \in Nat
            /\ Count(E, main) = Count(E, t) + (IF e \in E THEN 1 ELSE 0) /\ Count(E, t) \in Nat
            /\ Count(Y, t) <= Count(E, t)
        BY <1>5, <1>6
      <3>3. e \in E <=> m = e.m
        BY <1>7
      <3> HIDE DEF Y, E
      <3>4. Count(Y, t) > 0 => Count(Y, main) > 0
        BY <3>2
      <3>5. Count(Y, t) > 0 /\ Count(E, main) = 1 => Count(E, t) = 1 /\ e \notin E
        BY <3>2
      <3>6. Count(Y, main) > 0 => Count(E, main) = 1
        BY <3>1 DEF FirstLife, Y, E
      <3>7. Count(Y, t) > 0 => m # l.m
        BY <2>2, <3>3, <3>4, <3>5, <3>6
      <3> QED BY <1>1, <2>1, <2>4, <3>1, <3>4, <3>5, <3>6, <3>7 DEF FirstLife, Y, E
    <2> QED BY <2>5, <2>6 DEF LivesInv
  <1> QED BY <1>10, <1>11, <1>12, <1>13

(* Every message begins with one entry and has never died. *)
LEMMA LivesInit ==
  ASSUME NEW c, DeadConfig(c), Dead(c)!Init
  PROVE  LivesInv(c)
  <1> DEFINE n == Dead(c)!Cardinality(c.Msgs)
             a == [m |-> "alien", att |-> 0, ok |-> FALSE]
  <1>1. n \in Nat
    BY DeadCardinality DEF DeadConfig
  <1>2. PICK s \in Dead(c)!Orders(c.Msgs) : main = [i \in 1..n |-> [m |-> s[i], att |-> 0]]
    BY DEF Dead!Init
  <1>3. /\ s \in [1..n -> c.Msgs] /\ \A m \in c.Msgs : \E i \in 1..n : s[i] = m
        /\ \A i, j \in 1..n : s[i] = s[j] => i = j
    BY DEF Dead!Orders, Dead!Bijection, Dead!Injection, Dead!Surjection, Dead!IsInjective
  <1> HIDE DEF n
  <1>4. /\ dead = <<a>> /\ limbo = <<>> /\ cmd = [q \in c.Commands |-> Dead(c)!Idle]
        /\ replays = [m \in c.Msgs |-> 0]
    BY DEF Dead!Init
  <1>5. \A l : Circulates(c, l) => ~l.ok
    <2>1. \A q \in c.Commands : cmd[q].hand = <<>>
      BY <1>4 DEF Dead!Idle
    <2>2. \A q \in c.Commands : \A l : ~HasLetter(cmd[q], l)
      BY <2>1 DEF HasLetter, Listed
    <2>3. Listed(limbo) = {}
      BY <1>4 DEF Listed
    <2>4. ~a.ok
      OBVIOUS
    <2> HIDE DEF a
    <2>5. Listed(dead) = {a}
      <3>1. DOMAIN dead = {1} /\ dead[1] = a
        BY <1>4
      <3> QED BY <3>1 DEF Listed
    <2> QED BY <2>2, <2>3, <2>4, <2>5 DEF Circulates
  <1>6. ASSUME NEW m \in c.Msgs PROVE FirstLife(c, m)
    <2> DEFINE I == {i \in DOMAIN main : main[i] \in Entries(c, m)}
    <2>1. PICK i \in 1..n : s[i] = m
      BY <1>3
    <2>2. DOMAIN main = 1..n /\ \A j \in 1..n : main[j].m = s[j] /\ main[j] \in SourceMessages(c)
      <3>1. main \in Seq(SourceMessages(c))
        BY DeadInit DEF DeadInv, QueuesTyped
      <3>2. DOMAIN main = 1..n /\ \A j \in 1..n : main[j].m = s[j]
        BY <1>2
      <3>3. \A j \in DOMAIN main : main[j] \in SourceMessages(c)
        BY <3>1
      <3> QED BY <3>2, <3>3
    <2>3. I = {i}
      BY <1>3, <2>1, <2>2 DEF Entries
    <2>4. Count(Entries(c, m), main) = Cardinality(I)
      BY DEF Count
    <2> HIDE DEF I
    <2>5. Count(Entries(c, m), main) = 1
      BY <2>3, <2>4, FS_Singleton
    <2> QED BY <1>4, <1>5, <2>5 DEF FirstLife
  <1> QED BY <1>5, <1>6 DEF LivesInv, SpentLetters

(* Every step keeps them. *)
LEMMA LivesKept ==
  ASSUME NEW c, DeadConfig(c), DeadInv(c), CountersTyped(c), LivesInv(c), [Dead(c)!Next]_(Dead(c)!vars)
  PROVE  LivesInv(c)'
  <1>1. DeadInv(c)'
    BY DeadKept
  <1>2. CASE UNCHANGED Dead(c)!vars
    <2>1. UNCHANGED <<main, dead, limbo, cmd, replays>>
      BY <1>2 DEF Dead!vars, Dead!queues, Dead!ghosts
    <2>2. \A l \in DeadMessages(c) : Circulates(c, l)' => Circulates(c, l)
      BY <2>1 DEF Circulates
    <2> QED BY <2>1, <2>2, NothingNew
  <1>3. ASSUME NEW k \in c.Commands, Dead(c)!Command(k)
        PROVE  LivesInv(c)'
    <2>1. CASE \/ \E op \in Dead(c)!Ops : Dead(c)!Begin(k, op)
               \/ Dead(c)!End(k) \/ Dead(c)!Cancel(k) \/ Dead(c)!ExpireHeld(k)
      BY <1>1, <2>1, MovesLives
    <2>2. CASE Dead(c)!Invalid(k) \/ Dead(c)!SendFails(k) \/ Dead(c)!Ack(k) \/ Dead(c)!AckFails(k)
      BY <2>2, StepLives
    <2>3. CASE Dead(c)!Send(k)
      BY <2>3, SendLives
    <2> QED BY <1>3, <2>1, <2>2, <2>3 DEF Dead!Command, Dead!Step
  <1> QED BY <1>2, <1>3, TaskLives, ExpireLimboLives DEF Dead!Next

(* What they say: a replayed message has no attempts left. *)
LEMMA LivesImplies ==
  ASSUME NEW c, DeadInv(c), CountersTyped(c), LivesInv(c)
  PROVE  Dead(c)!ReplayDiesAtOnce
  <1> SUFFICES ASSUME NEW i \in DOMAIN main, ~Dead(c)!Exhausted(main[i])
               PROVE  ~(replays[main[i].m] > 0)
    BY DEF Dead!ReplayDiesAtOnce
  <1> DEFINE x == main[i]
             m == x.m
  <1>1. main \in Seq(SourceMessages(c)) /\ x \in SourceMessages(c)
    BY DEF DeadInv, QueuesTyped
  <1>2. m \in c.Msgs /\ x \in Young(c, m)
    <2> HIDE DEF x
    <2> QED BY <1>1 DEF SourceMessages, Young, Entries, x
  <1>3. Count(Young(c, m), main) > 0
    <2> HIDE DEF m
    <2> QED BY <1>1, <1>2, CountMore
  <1> HIDE DEF m
  <1>4. replays[m] = 0
    BY <1>2, <1>3 DEF LivesInv, FirstLife
  <1> QED BY <1>4 DEF m

(* The invariants of the dead letters together. *)
LetterInv(c) == DeadInv(c) /\ TallyInv(c) /\ LivesInv(c)

LEMMA LetterInit ==
  ASSUME NEW c, TallyConfig(c), Dead(c)!Init
  PROVE  LetterInv(c)
  BY DeadInit, TallyInit, LivesInit DEF TallyConfig, LetterInv

LEMMA LetterKept ==
  ASSUME NEW c, TallyConfig(c), LetterInv(c), [Dead(c)!Next]_(Dead(c)!vars)
  PROVE  LetterInv(c)'
  BY DeadKept, TallyKept, LivesKept DEF TallyConfig, LetterInv, TallyInv

\* Whatever the messages, the commands, their limit, the faults and the cancellations are:
\* what the reports of the commands say adds up with the queues, a message is replayed no
\* more often than it died, but for faults, expired leases and cancelled commands, and a
\* replayed message has no attempts left.
THEOREM ReplaysAddUp ==
  ASSUME NEW c, TallyConfig(c)
  PROVE  Dead(c)!Spec => [](Dead(c)!ReplayBounded /\ Dead(c)!ReportTrue /\ Dead(c)!ReplayDiesAtOnce)
  <1>1. Dead(c)!Init => LetterInv(c)
    BY LetterInit
  <1>2. LetterInv(c) /\ [Dead(c)!Next]_(Dead(c)!vars) => LetterInv(c)'
    BY LetterKept
  <1>3. LetterInv(c) => Dead(c)!ReplayBounded /\ Dead(c)!ReportTrue /\ Dead(c)!ReplayDiesAtOnce
    BY TallyImplies, LivesImplies DEF LetterInv, TallyInv
  <1> QED BY <1>1, <1>2, <1>3, PTL DEF Dead!Spec

--------------------------------------------------------------------------------
(* The invariants of the components, each in its own part. *)
FamilyInv ==
  /\ part = "claimed" => AloneInv(Claimed)
  /\ part = "restart" => RestartInv(Restart)
  /\ part = "timeouts" => RuntimeInv(Timeouts) /\ SupervisorInv(Timeouts)
  /\ part = "startup" => LifecycleInv(Startup) /\ LeakInv(Startup)
  /\ part = "restarts" => LifecycleInv(Restarts)
  /\ part = "letters" => LetterInv(Letters)
  /\ part = "memory" => LetterInv(Memory)
  /\ part = "managed" => ManagedInv(Lease)

(* The application of two tasks lists each of its resources once. *)
LEMMA SharedConfig ==
  ASSUME NEW c, c.Tasks = {"t1", "t2"}, c.Uses = SharedUse, c.Named = <<"source">>
  PROVE  LifecycleConfig(c)
  <1>1. /\ c.Uses["t1"] = <<"queue", "shared">> /\ c.Uses["t2"] = <<"source", "shared", "dead">>
    BY DEF SharedUse
  <1>2. /\ Lifecycle(c)!Members(c.Named) = {"source"}
        /\ Lifecycle(c)!Members(c.Uses["t1"]) = {"queue", "shared"}
        /\ Lifecycle(c)!Members(c.Uses["t2"]) = {"source", "shared", "dead"}
    BY <1>1 DEF Lifecycle!Members
  <1>3. Lifecycle(c)!Resources = {"source", "queue", "shared", "dead"}
    BY <1>2 DEF Lifecycle!Resources
  <1>4. IsFiniteSet(Lifecycle(c)!Resources)
    <2>1. IsFiniteSet({"source"})
      BY FS_Singleton
    <2>2. IsFiniteSet({"source"} \cup {"queue"})
      BY <2>1, FS_AddElement
    <2>3. IsFiniteSet(({"source"} \cup {"queue"}) \cup {"shared"})
      BY <2>2, FS_AddElement
    <2>4. IsFiniteSet((({"source"} \cup {"queue"}) \cup {"shared"}) \cup {"dead"})
      BY <2>3, FS_AddElement
    <2>5. (({"source"} \cup {"queue"}) \cup {"shared"}) \cup {"dead"} = Lifecycle(c)!Resources
      BY <1>3
    <2> QED BY <2>4, <2>5
  <1>5. c.Uses["t1"] \in Seq(Lifecycle(c)!Resources) /\ c.Uses["t2"] \in Seq(Lifecycle(c)!Resources)
    BY <1>1, <1>3
  <1>6. Once(c.Uses["t1"]) /\ Once(c.Uses["t2"])
    BY <1>1 DEF Once
  <1> QED BY <1>4, <1>5, <1>6 DEF LifecycleConfig

(* The checked configurations are ones the theorems are about. *)
LEMMA Configured ==
  /\ RuntimeConfig(Claimed) /\ NoRestarts(Claimed) /\ FetchesKept(Claimed) /\ ~Claimed.DrainTimesOut
  /\ RuntimeConfig(Restart) /\ OrderlyRestart(Restart)
  /\ RuntimeConfig(Timeouts) /\ OneCommand(Timeouts)
  /\ TallyConfig(Letters) /\ TallyConfig(Memory) /\ LeaseConfig(Lease)
  /\ LifecycleConfig(Startup) /\ LifecycleConfig(Restarts) /\ Startup.MaxRestarts = 0
  <1>1. \A x, y, z : IsFiniteSet({x}) /\ IsFiniteSet({x, y}) /\ IsFiniteSet({x, y, z})
    <2> SUFFICES ASSUME NEW x, NEW y, NEW z
                 PROVE  IsFiniteSet({x}) /\ IsFiniteSet({x, y}) /\ IsFiniteSet({x, y, z})
      OBVIOUS
    <2>1. {} \cup {x} = {x} /\ {x} \cup {y} = {x, y} /\ {x, y} \cup {z} = {x, y, z}
      OBVIOUS
    <2>2. IsFiniteSet({x})
      BY <2>1, FS_EmptySet, FS_AddElement
    <2>3. IsFiniteSet({x, y})
      BY <2>1, <2>2, FS_AddElement
    <2> QED BY <2>1, <2>2, <2>3, FS_AddElement
  <1>2. RuntimeConfig(Claimed) /\ NoRestarts(Claimed) /\ FetchesKept(Claimed) /\ ~Claimed.DrainTimesOut
    BY <1>1 DEF RuntimeConfig, NoRestarts, FetchesKept, Claimed
  <1>3. RuntimeConfig(Restart) /\ OrderlyRestart(Restart)
    BY <1>1 DEF RuntimeConfig, OrderlyRestart, OneCommand, Restart
  <1>4. RuntimeConfig(Timeouts) /\ OneCommand(Timeouts)
    BY <1>1 DEF RuntimeConfig, OneCommand, Timeouts
  <1>5. TallyConfig(Letters) /\ TallyConfig(Memory) /\ LeaseConfig(Lease)
    BY <1>1 DEF TallyConfig, DeadConfig, LeaseConfig, Letters, Memory, Lease
  <1>6. LifecycleConfig(Startup) /\ LifecycleConfig(Restarts) /\ Startup.MaxRestarts = 0
    BY SharedConfig DEF Startup, Restarts
  <1> QED BY <1>2, <1>3, <1>4, <1>5, <1>6

(* Every part starts with its invariant. *)
LEMMA FamilyInit ==
  Init => FamilyInv
  <1> SUFFICES ASSUME Init
               PROVE  FamilyInv
    OBVIOUS
  <1>1. part = "claimed" => AloneInv(Claimed)
    <2>1. part = "claimed" => Runtime(Claimed)!Init
      BY DEF Init
    <2> QED BY <2>1, Configured, AloneInit
  <1>2. part = "restart" => RestartInv(Restart)
    <2>1. part = "restart" => Runtime(Restart)!Init
      BY DEF Init
    <2> QED BY <2>1, Configured, RestartInit
  <1>3. part = "timeouts" => RuntimeInv(Timeouts) /\ SupervisorInv(Timeouts)
    <2>1. part = "timeouts" => Runtime(Timeouts)!Init
      BY DEF Init
    <2> QED BY <2>1, Configured, RuntimeInit, SupervisorInit
  <1>4. part = "letters" => LetterInv(Letters)
    <2>1. part = "letters" => Dead(Letters)!Init
      BY DEF Init
    <2> QED BY <2>1, Configured, LetterInit
  <1>5. part = "memory" => LetterInv(Memory)
    <2>1. part = "memory" => Dead(Memory)!Init
      BY DEF Init
    <2> QED BY <2>1, Configured, LetterInit
  <1>6. part = "managed" => ManagedInv(Lease)
    <2>1. part = "managed" => Managed(Lease)!Init
      BY DEF Init
    <2> QED BY <2>1, Configured, ManagedInit
  <1>7. part = "startup" => LifecycleInv(Startup) /\ LeakInv(Startup)
    <2>1. part = "startup" => Lifecycle(Startup)!Init
      BY DEF Init
    <2> QED BY <2>1, LifecycleInit, LeakInit
  <1>8. part = "restarts" => LifecycleInv(Restarts)
    <2>1. part = "restarts" => Lifecycle(Restarts)!Init
      BY DEF Init
    <2> QED BY <2>1, LifecycleInit
  <1> QED BY <1>1, <1>2, <1>3, <1>4, <1>5, <1>6, <1>7, <1>8 DEF FamilyInv

(* A step of a behaviour is a step of its component. *)
LEMMA PartSteps ==
  ASSUME [Next]_vars
  PROVE  /\ part' = part
         /\ part = "claimed" => [Runtime(Claimed)!Next]_(Runtime(Claimed)!vars)
         /\ part = "restart" => [Runtime(Restart)!Next]_(Runtime(Restart)!vars)
         /\ part = "timeouts" => [Runtime(Timeouts)!Next]_(Runtime(Timeouts)!vars)
         /\ part = "startup" => [Lifecycle(Startup)!Next]_(Lifecycle(Startup)!vars)
         /\ part = "restarts" => [Lifecycle(Restarts)!Next]_(Lifecycle(Restarts)!vars)
         /\ part = "letters" => [Dead(Letters)!Next]_(Dead(Letters)!vars)
         /\ part = "memory" => [Dead(Memory)!Next]_(Dead(Memory)!vars)
         /\ part = "managed" => [Managed(Lease)!Next]_(Managed(Lease)!vars)
  <1>1. CASE UNCHANGED vars
    BY <1>1 DEF vars, Runtime!vars, Dead!vars, Dead!queues, Dead!ghosts, Dead!bounds,
                Managed!vars, Managed!rowVars, Managed!hbVars, Lifecycle!vars
  <1>2. CASE Next
    BY <1>2 DEF Next, NotAppRuntime, NotAppLifecycle, NotDeadLetters, NotManagedDelivery
  <1> QED BY <1>1, <1>2

(* Every part keeps its invariant. *)
LEMMA FamilyStep ==
  FamilyInv /\ [Next]_vars => FamilyInv'
  <1> SUFFICES ASSUME FamilyInv, [Next]_vars
               PROVE  FamilyInv'
    OBVIOUS
  <1>1. part = "claimed" => AloneInv(Claimed)'
    BY Configured, PartSteps, AloneKept DEF FamilyInv
  <1>2. part = "restart" => RestartInv(Restart)'
    BY Configured, PartSteps, RestartKept DEF FamilyInv
  <1>3. part = "timeouts" => RuntimeInv(Timeouts)' /\ SupervisorInv(Timeouts)'
    BY Configured, PartSteps, RuntimeKept, SupervisorKept DEF FamilyInv
  <1>4. part = "letters" => LetterInv(Letters)'
    BY Configured, PartSteps, LetterKept DEF FamilyInv
  <1>5. part = "memory" => LetterInv(Memory)'
    BY Configured, PartSteps, LetterKept DEF FamilyInv
  <1>6. part = "managed" => ManagedInv(Lease)'
    BY Configured, PartSteps, ManagedKept DEF FamilyInv
  <1>7. part = "startup" => LifecycleInv(Startup)' /\ LeakInv(Startup)'
    BY Configured, PartSteps, LifecycleKept, LeakKept DEF FamilyInv
  <1>8. part = "restarts" => LifecycleInv(Restarts)'
    BY Configured, PartSteps, LifecycleKept DEF FamilyInv
  <1> QED BY PartSteps, <1>1, <1>2, <1>3, <1>4, <1>5, <1>6, <1>7, <1>8 DEF FamilyInv

\* Nothing a runner fetched and no dead letter is lost, in every run of every checked
\* configuration.
THEOREM NothingLostHolds ==
  Spec => []NothingLost
  <1>1. FamilyInv => NothingLost
    BY Configured, RuntimeTypes, DeadImplies DEF FamilyInv, LetterInv, NothingLost, AloneInv, ServingInv
  <1> QED BY <1>1, FamilyInit, FamilyStep, PTL DEF Spec

\* The replays are counted: the reports add up, no message is replayed more often than it
\* died but for faults, and one that is replayed dies at once if it fails, in every run of
\* every checked configuration.
THEOREM ReplaysCountedHolds ==
  Spec => []ReplaysCounted
  <1>1. FamilyInv => ReplaysCounted
    BY Configured, TallyImplies, LivesImplies DEF FamilyInv, LetterInv, TallyInv, ReplaysCounted
  <1> QED BY <1>1, FamilyInit, FamilyStep, PTL DEF Spec

\* task.concurrency bounds the deliveries in flight, across a restart too, and two
\* runners of a task are never alive at once, in every run of every checked configuration.
THEOREM WithinConcurrencyHolds ==
  Spec => []WithinConcurrency
  <1>1. FamilyInv => WithinConcurrency
    BY Configured, AloneWithin, RestartWithin DEF FamilyInv, WithinConcurrency, SupervisorInv, FirstAlone
  <1> QED BY <1>1, FamilyInit, FamilyStep, PTL DEF Spec

\* "drained" and "paused" are reported of a quiet task only, in every run of every
\* checked configuration.
THEOREM QuietWhenReportedHolds ==
  Spec => []QuietWhenReported
  <1>1. FamilyInv => QuietWhenReported
    BY Configured, AloneQuiet DEF FamilyInv, QuietWhenReported
  <1> QED BY <1>1, FamilyInit, FamilyStep, PTL DEF Spec

\* Resources are open while they are used and closed in the end: no shutdown or restart
\* closes them under a handler or under another task, none is opened twice, and a failed
\* startup leaves nothing open, in every run of every checked configuration.
THEOREM OpenWhileUsedHolds ==
  Spec => []OpenWhileUsed
  <1>1. FamilyInv => OpenWhileUsed
    <2> SUFFICES ASSUME FamilyInv
                 PROVE  OpenWhileUsed
      OBVIOUS
    <2>1. part = "claimed" => Runtime(Claimed)!OpenWhileHandling
      BY Configured, AloneQuiet DEF FamilyInv
    <2>2. part = "restart" => Runtime(Restart)!DrainBeforeClose
      BY RestartDrains DEF FamilyInv
    <2>3. part = "startup" => Lifecycle(Startup)!NothingLeaks
      BY DEF FamilyInv, LeakInv, Lifecycle!NothingLeaks
    <2>4. part = "restarts" => /\ Lifecycle(Restarts)!TypeOK /\ Lifecycle(Restarts)!RunnersOpen
                               /\ Lifecycle(Restarts)!OpenedOnce
      BY Configured, LifecycleImplies DEF FamilyInv
    <2> QED BY <2>1, <2>2, <2>3, <2>4 DEF OpenWhileUsed
  <1> QED BY <1>1, FamilyInit, FamilyStep, PTL DEF Spec

\* Every live runner is waited for, and the heartbeat of a delivery ends with its
\* execute() unless that was cut short, in every run of every checked configuration.
THEOREM SupervisedHolds ==
  Spec => []Supervised
  <1>1. FamilyInv => Supervised
    BY ManagedImplies DEF FamilyInv, Supervised, SupervisorInv, Awaited
  <1> QED BY <1>1, FamilyInit, FamilyStep, PTL DEF Spec

\* No step of a restart takes the process down, none reports a completion that is not
\* stored, and none gives up a requested cancellation for a shutdown, in every run of
\* every checked configuration.
THEOREM PromisesKeptHolds ==
  Spec => PromisesKept
  <1>1. FamilyInv /\ [Next]_vars =>
          [/\ part = "restart" => Runtime(Restart)!ServeOutlivesRestart
           /\ part = "managed" => Managed(Lease)!CancellationIsShielded /\ Managed(Lease)!CompletedIsStored]_vars
    BY Configured, PartSteps, ServeOutlives, ManagedPromises DEF FamilyInv, RestartInv
  <1> QED BY <1>1, FamilyInit, FamilyStep, PTL DEF Spec, PromisesKept
==============================================================================
