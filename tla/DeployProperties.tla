--------------------------- MODULE DeployProperties ---------------------------
(***************************************************************************)
(* What the deploy system of DeploySystem should satisfy.                  *)
(***************************************************************************)
EXTENDS DeploySystem

\* Every variable has its type.
TypeOK ==
    /\ st \in DeployState
    /\ flag \in Run \cup {None, "any"}
    /\ legacy \in [phase : {"healthy", "deploying", "failed"},
                   startedAt : StartedAge]
    /\ current \in ShaOrNone /\ previous \in ShaOrNone
    /\ releases \in SUBSET Sha /\ built \in SUBSET Sha
    /\ serving \in ShaOrNone
    /\ mutex \in Actor \cup {None}
    /\ origin \in Sha
    /\ pc \in [Actor -> PC] /\ loc \in [Actor -> Locals]
    /\ watch \in {"asleep", "deciding"}
    /\ watchRun \in Run \cup {None}
    /\ cancel \in [pc : {"idle", "kill", "reset"}, runId : Run \cup {None},
                   lastGoodSha : ShaOrNone, activeSha : ShaOrNone]
    /\ faults \in Nat
    /\ validated \in SUBSET Sha
    /\ cancelled \in SUBSET Run

\* At most one deploy or bootstrap at a time works in the environment, whatever
\* the resets of abandoned states, the kills and the cancels around it do
\* (run_pipeline_locked.ps1; test T6 of deploy/README.md).
OneAtATime ==
    \A a, b \in Actor : Owning(a) /\ Owning(b) => a = b

\* A deploy past validation works on an artefact that is still built and was
\* validated: nothing that runs beside it rebuilds or prunes it.
PastValidation(a) ==
    pc[a] \in {"validated", "promote", "promoteLink", "migrate", "restore",
               "start", "health", "promoted", "publish", "prune", "remove"}

PromotesValidated ==
    \A r \in Run : PastValidation(r) => loc[r].target \in validated \cap built

\* No process works and the state does not claim one does.
Quiet ==
    /\ \A a \in Actor : ~Running(a)
    /\ cancel.pc = "idle"
    /\ ~Busy(st)

\* The deploy system keeps the promise of ReleasePromise: the mutex says who
\* holds the environment, and all but the manual rollback and the rebuild of a
\* live release respect it.
Promise ==
    INSTANCE ReleasePromise WITH
        Release <- Sha, Process <- Actor, live <- current,
        approved <- validated \cap built, holder <- mutex

KeepsPromise == Promise!Spec

\* When all is quiet, the junction, if there, points to the release the state
\* calls active: promote, restore, rollback and resets agree.
StateAgrees == Quiet /\ current # None => current = st.activeSha

\* When all is quiet, what runs is what the junction points to: a deploy that
\* failed put back what it had replaced.
ServesCurrent ==
    Quiet /\ serving # None /\ current # None => serving = current

\* A run the console reported as cancelled does not publish its commit after.
CancelledStays ==
    [][\A r \in Run : r \in cancelled /\ pc[r] = "promoted"
                        => pc'[r] # "publish"]_vars

\* deploy/README.md: before promote_release, nothing that fails or is done
\* takes the release in production away.
ProductionStep ==
    (\E r \in Run : pc[r] \in {"build", "compile", "built", "validate",
                                 "validated"} /\ pc'[r] \notin {pc[r], "off"})
      => /\ serving \in built => serving \in built'
         /\ current' = current /\ serving' = serving

ProductionKept == [][ProductionStep]_vars

\* A cancel frees the environment for a new redeploy (server_ops.py:456), even
\* if the process could not be killed.
CancelFrees ==
    (cancel.pc = "kill") ~> (~Busy(st) /\ mutex = None /\ flag = None)

\* Every deploy comes to an end and gives the mutex back.
DeploysEnd == \A r \in Run : Running(r) ~> ~Running(r)

\* If commits stop coming, the branch's head becomes the active release or is
\* blocked by a failure, whatever crashed before.
Converges ==
    \A s \in Sha : <>[](origin = s) => <>[](s \in {st.activeSha, st.blockedSha})
=============================================================================
