------------------------------ MODULE Overlap ------------------------------
(***************************************************************************)
(* A rolling update of the controller.  Leader election is off unless the  *)
(* -leader-elect flag is given, and the deployment's update strategy       *)
(* starts the new pod before it stops the old one: for a while two         *)
(* controllers, each with its own cache, queue and worker, reconcile the   *)
(* same tenants.  The new one is TenantController itself; the old one, a   *)
(* second instance of it, still begins up to MaxOld reconciliations, from  *)
(* the watch or the resync, and is killed between or in the middle of      *)
(* them.                                                                   *)
(***************************************************************************)
EXTENDS TenantController

CONSTANT MaxOld  \* bound: reconciliations that the old controller still begins

ASSUME MaxOldAssumption == MaxOld \in Nat

VARIABLES oldCache, oldQueue, oldPc, oldCur, \* the old controller's
          old                                \* how many of them it still begins

Old == INSTANCE TenantController WITH
         cache <- oldCache, queue <- oldQueue, pc <- oldPc, cur <- oldCur

newVars == <<cache, queue, pc, cur>>

oldVars == <<oldCache, oldQueue, oldPc, oldCur>>

overlapVars == <<vars, oldVars, old>>

OverlapInit == Init /\ Old!Init /\ old = MaxOld

NewStep == Next /\ UNCHANGED <<oldVars, old>>

OldWatch == /\ old > 0
            /\ \E n \in CRNames : Old!Deliver(n) \/ Old!Resync(n)
            /\ UNCHANGED <<newVars, old>>

OldBegin == /\ old > 0 /\ old' = old - 1
            /\ \E n \in CRNames : Old!BeginReconcile(n)
            /\ UNCHANGED newVars

OldWork == Old!Worker /\ UNCHANGED <<newVars, old>>

\* The old pod is gone, in the middle of whatever it did.
Stop == /\ old > 0 \/ oldPc # "idle"
        /\ old' = 0
        /\ oldCache' = {} /\ oldQueue' = {}
        /\ oldPc' = "idle" /\ oldCur' = NoTenant
        /\ UNCHANGED vars

OverlapNext == NewStep \/ OldWatch \/ OldBegin \/ OldWork \/ Stop

\* Nothing is asked of the old controller but to be gone in the end.
OverlapSpec == /\ OverlapInit /\ [][OverlapNext]_overlapVars
               /\ Fairness
               /\ WF_overlapVars(Stop)

-----------------------------------------------------------------------------
\* A row that one controller deleted is never touched again by the other, which
\* may have read it as live just before: UpdateTenant and CreateTenant do not
\* bring it back.
DroppedRowsFrozen ==
  [][\A r \in tenants : r.deleted => r \in tenants']_overlapVars

\* What the old controller still builds for a tenant that the new one has
\* already let go, a new namespace included, does not stay: every object
\* carries its owner's uid, and the collector takes it.
LeftoversCollected ==
  \A uid \in 1..MaxIds :
    (\E c \in crs : c.uid = uid /\ c.deleting)
      ~> [](/\ \A c \in crs : c.uid # uid
            /\ \A o \in objs : o.owner # uid)

=============================================================================
