--------------------------- MODULE TuningOverlay ---------------------------
(***************************************************************************)
(* The tuning bundle a region ranks with (tuning/store.py apply_bundle,    *)
(* revert_bundle, active_overlay; search/ranking.py RankingResolver).      *)
(* Applying a bundle is two committed statements: supersede every active   *)
(* row, then activate this one.  Standing down is one, for the row that    *)
(* was read as active, followed by an apply when it goes back to an        *)
(* earlier bundle.  Replicas cache the overlay for a while.                *)
(***************************************************************************)
EXTENDS Naturals

CONSTANTS TuningBundles,    \* stored bundles
          Base,             \* the configured parameters: no overlay
          OverlayActors,    \* threads that apply or stand down: the API, the CLI, a batch
          Rankers,          \* replicas with a RankingResolver
          MaxActs,          \* bound: acts begun
          MaxOverlayFaults  \* bound: deaths and failed reads

ASSUME OverlayConstants == /\ Base \notin TuningBundles
                           /\ MaxActs \in Nat /\ MaxOverlayFaults \in Nat

VARIABLES
    appliedAt,  \* [TuningBundles -> 0 .. MaxActs]: the act that applied it, 0 for never
    retired,    \* superseded_at is set
    actor,      \* [at, target, read, clean] of every actor
    cached,     \* _current of every replica
    expired,    \* the TTL is over, or the cache was dropped
    wanted,     \* history: what the last completed act asked for
    muddled,    \* history: acts overlapped or one died, and no clean apply followed
    acts, overlayFaults

bundleVars == <<appliedAt, retired>>
cacheVars == <<cached, expired>>
overlayVars == <<appliedAt, retired, actor, cached, expired, wanted, muddled, acts,
                 overlayFaults>>

NoAct == [at |-> "idle", target |-> Base, read |-> Base, clean |-> TRUE]

OverlayInit == /\ appliedAt = [b \in TuningBundles |-> 0]
               /\ retired = [b \in TuningBundles |-> FALSE]
               /\ actor = [x \in OverlayActors |-> NoAct]
               /\ cached = [r \in Rankers |-> Base]
               /\ expired = [r \in Rankers |-> TRUE]
               /\ wanted = Base /\ muddled = FALSE /\ acts = 0 /\ overlayFaults = 0

OverlayFault == overlayFaults < MaxOverlayFaults /\ overlayFaults' = overlayFaults + 1

ActiveRows == {b \in TuningBundles : appliedAt[b] > 0 /\ ~retired[b]}

\* active_overlay: the active row applied last.
ActiveOverlay == IF ActiveRows = {} THEN Base
                 ELSE CHOOSE b \in ActiveRows :
                          \A c \in ActiveRows : appliedAt[c] <= appliedAt[b]

Acting(x) == actor[x].at # "idle"

\* An act is clean that no other overlaps.
Begins(x, at, target, read) ==
    /\ ~Acting(x) /\ acts < MaxActs
    /\ acts' = acts + 1
    /\ LET overlap == \E y \in OverlayActors : Acting(y)
       IN  /\ actor' = [y \in OverlayActors |->
                 IF y = x
                 THEN [at |-> at, target |-> target, read |-> read, clean |-> ~overlap]
                 ELSE [actor[y] EXCEPT !.clean = @ /\ ~Acting(y)]]
           /\ muddled' = (muddled \/ overlap)

\* The replica that served the act drops its cache at the end of it.
Completes(x, target) == /\ actor' = [actor EXCEPT ![x] = NoAct]
                        /\ wanted' = target
                        /\ \/ UNCHANGED expired
                           \/ \E r \in Rankers : expired' = [expired EXCEPT ![r] = TRUE]
                        /\ UNCHANGED cached

(***************************************************************************)
(* Acts.                                                                   *)
(***************************************************************************)
BeginApply(x, b) == /\ Begins(x, "supersede", b, Base)
                    /\ UNCHANGED <<bundleVars, cacheVars, wanted, overlayFaults>>

\* Mutant: the incumbent is not superseded, the newer row simply wins.
SupersedeNone(x) == /\ actor[x].at = "supersede"
                    /\ actor' = [actor EXCEPT ![x].at = "activate"]
                    /\ UNCHANGED <<bundleVars, cacheVars, wanted, muddled, acts, overlayFaults>>

Supersede(x) == /\ actor[x].at = "supersede"
                /\ retired' = [b \in TuningBundles |-> retired[b] \/ b \in ActiveRows]
                /\ actor' = [actor EXCEPT ![x].at = "activate"]
                /\ UNCHANGED <<appliedAt, cacheVars, wanted, muddled, acts, overlayFaults>>

\* An apply that nobody overlapped leaves one active row, whatever was before.
Activate(x) == /\ actor[x].at = "activate"
               /\ LET chosen == actor[x].target
                  IN  /\ appliedAt' = [appliedAt EXCEPT ![chosen] = acts]
                      /\ retired' = [retired EXCEPT ![chosen] = FALSE]
                      /\ Completes(x, chosen)
               /\ muddled' = (muddled /\ ~actor[x].clean)
               /\ UNCHANGED <<acts, overlayFaults>>

\* Nothing is active: nothing is done, not even for a named bundle.
BeginRevert(x, to) == /\ Begins(x, "retire", to, ActiveOverlay)
                      /\ ActiveOverlay # Base
                      /\ UNCHANGED <<bundleVars, cacheVars, wanted, overlayFaults>>

Retire(x) == /\ actor[x].at = "retire"
             /\ retired' = [retired EXCEPT ![actor[x].read] = TRUE]
             /\ IF actor[x].target = Base
                THEN Completes(x, Base)
                ELSE /\ actor' = [actor EXCEPT ![x].at = "supersede"]
                     /\ UNCHANGED <<wanted, cacheVars>>
             /\ UNCHANGED <<appliedAt, muddled, acts, overlayFaults>>

ActorDies(x) == /\ Acting(x) /\ OverlayFault
                /\ actor' = [actor EXCEPT ![x] = NoAct]
                /\ muddled' = TRUE
                /\ UNCHANGED <<bundleVars, cacheVars, wanted, acts>>

(***************************************************************************)
(* RankingResolver.current.                                                *)
(***************************************************************************)
Resolved(r, params) == /\ expired[r]
                       /\ cached' = [cached EXCEPT ![r] = params]
                       /\ expired' = [expired EXCEPT ![r] = FALSE]
                       /\ UNCHANGED <<bundleVars, actor, wanted, muddled, acts>>

ResolveOverlay(r) == Resolved(r, ActiveOverlay) /\ UNCHANGED overlayFaults

\* The overlay could not be read: the configured parameters, for a whole TTL.
ResolveFails(r) == Resolved(r, Base) /\ OverlayFault

CacheExpires(r) == /\ ~expired[r]
                   /\ expired' = [expired EXCEPT ![r] = TRUE]
                   /\ UNCHANGED <<bundleVars, actor, cached, wanted, muddled, acts,
                                  overlayFaults>>

ActStep(x) == Supersede(x) \/ Activate(x) \/ Retire(x)

OverlayNext == \/ \E x \in OverlayActors : \/ \E b \in TuningBundles : BeginApply(x, b)
                                          \/ \E to \in TuningBundles \cup {Base} :
                                                BeginRevert(x, to)
                                          \/ ActStep(x) \/ ActorDies(x)
               \/ \E r \in Rankers : ResolveOverlay(r) \/ ResolveFails(r) \/ CacheExpires(r)

OverlaySpec == OverlayInit /\ [][OverlayNext]_overlayVars

(***************************************************************************)
(* Properties.                                                             *)
(***************************************************************************)

\* Every variable has its type.
OverlayTypeOK ==
    /\ appliedAt \in [TuningBundles -> 0 .. MaxActs] /\ retired \in [TuningBundles -> BOOLEAN]
    /\ actor \in [OverlayActors -> [at : {"idle", "supersede", "activate", "retire"},
                                    target : TuningBundles \cup {Base},
                                    read : TuningBundles \cup {Base}, clean : BOOLEAN]]
    /\ cached \in [Rankers -> TuningBundles \cup {Base}] /\ expired \in [Rankers -> BOOLEAN]
    /\ wanted \in TuningBundles \cup {Base} /\ muddled \in BOOLEAN
    /\ acts \in 0 .. MaxActs /\ overlayFaults \in 0 .. MaxOverlayFaults

\* At most one bundle is active, and between acts it is the one the last act asked
\* for, although an act is several statements that several processes interleave;
\* unless acts overlapped or one died, and no clean apply has followed.
OneOverlay == ~muddled => /\ \A b, c \in ActiveRows : b = c
                          /\ (\A x \in OverlayActors : ~Acting(x)) => ActiveOverlay = wanted

\* The whole fleet comes to rank with what the last apply or roll back asked
\* for, through failed reads and stale caches and whichever replica served it,
\* unless two acts overlapped or one died between its statements and no clean
\* apply followed: then two rows may be active, and a roll back uncovers the
\* older one.
OverlayFollowed == \A r \in Rankers : []<>(muddled \/ cached[r] = wanted)
=============================================================================
