--------------------------- MODULE TenantLifecycle ---------------------------
(***************************************************************************)
(* What the controller promises about a tenant's life, without cache,      *)
(* queue, worker, resource versions or SQL: a resource is requested, held  *)
(* by the finalizer, stored as a row, doomed by a deletion; the row goes   *)
(* first, and only then is the resource let go.  A uid that is gone, and a *)
(* row that was dropped, never come back.                                  *)
(***************************************************************************)
CONSTANT Uid     \* the uids ever given to Tenant resources

VARIABLES used,    \* uids given out so far
          alive,   \* uids of the Tenant resources that exist
          held,    \* those that carry the finalizer
          doomed,  \* those marked for deletion
          stored,  \* uids with a live row
          dropped  \* uids with a deleted row

lifeVars == <<used, alive, held, doomed, stored, dropped>>

Init == /\ used = {} /\ alive = {} /\ held = {}
        /\ doomed = {} /\ stored = {} /\ dropped = {}

Request(u) == /\ u \notin used
              /\ used' = used \cup {u}
              /\ alive' = alive \cup {u}
              /\ UNCHANGED <<held, doomed, stored, dropped>>

Hold(u) == /\ u \in alive \ held
           /\ held' = held \cup {u}
           /\ UNCHANGED <<used, alive, doomed, stored, dropped>>

\* A resource nobody holds disappears at once when it is deleted.
Withdraw(u) == /\ u \in alive \ held
               /\ alive' = alive \ {u}
               /\ UNCHANGED <<used, held, doomed, stored, dropped>>

Doom(u) == /\ u \in held \ doomed
           /\ doomed' = doomed \cup {u}
           /\ UNCHANGED <<used, alive, held, stored, dropped>>

Store(u) == /\ u \in held
            /\ u \notin stored \cup dropped
            /\ stored' = stored \cup {u}
            /\ UNCHANGED <<used, alive, held, doomed, dropped>>

Drop(u) == /\ u \in stored \cap doomed
           /\ stored' = stored \ {u}
           /\ dropped' = dropped \cup {u}
           /\ UNCHANGED <<used, alive, held, doomed>>

Release(u) == /\ u \in doomed \ stored
              /\ alive' = alive \ {u}
              /\ held' = held \ {u}
              /\ doomed' = doomed \ {u}
              /\ UNCHANGED <<used, stored, dropped>>

Next == \E u \in Uid : \/ Request(u) \/ Hold(u) \/ Withdraw(u) \/ Doom(u)
                       \/ Store(u) \/ Drop(u) \/ Release(u)

Spec == Init /\ [][Next]_lifeVars

=============================================================================
