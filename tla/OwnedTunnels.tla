---------------------------- MODULE OwnedTunnels ----------------------------
(***************************************************************************)
(* What both controllers promise about the tunnels they make in Cloudflare *)
(* for the objects they own, whatever their passes do in between: a tunnel *)
(* is made only for an object that the finalizer guards and that has none, *)
(* the controller deletes it only while the object is being deleted, and   *)
(* the object goes only when the tunnel it records is dealt with.          *)
(* TunnelBinding and PrivateRoute implement this specification.            *)
(***************************************************************************)
CONSTANTS
  Owners,    \* bindings, or private routes
  Tunnels,   \* identifiers Cloudflare may assign
  NoTunnel,  \* no tunnel recorded
  OldCopies  \* may finalize delete by a copy of the object that is out of date?

VARIABLES
  phase,     \* of the life of an object: absent, live, deleting, gone
  guarded,   \* does it carry the finalizer?
  policy,    \* its spec.deletionPolicy
  recorded,  \* its status.tunnelID
  tunnel     \* the tunnels: their state and the object they were made for

vars == <<phase, guarded, policy, recorded, tunnel>>

Exists(o) == phase[o] \in {"live", "deleting"}
Live(t)   == tunnel[t].state = "live"
Has(o)    == \E t \in Tunnels : Live(t) /\ tunnel[t].owner = o

Init ==
  /\ phase    = [o \in Owners |-> "absent"]
  /\ guarded  = [o \in Owners |-> FALSE]
  /\ policy   \in [Owners -> {"Delete", "Retain"}]
  /\ recorded = [o \in Owners |-> NoTunnel]
  /\ tunnel   \in [Tunnels -> [state : {"unused"}, owner : Owners]]

\* Users create objects, change their policies and delete them.
Appear(o) ==
  /\ phase[o] = "absent" /\ phase' = [phase EXCEPT ![o] = "live"]
  /\ \E p \in {"Delete", "Retain"} : policy' = [policy EXCEPT ![o] = p]
  /\ UNCHANGED <<guarded, recorded, tunnel>>

EditPolicy(o) ==
  /\ Exists(o)
  /\ \E p \in {"Delete", "Retain"} : policy' = [policy EXCEPT ![o] = p]
  /\ UNCHANGED <<phase, guarded, recorded, tunnel>>

Delete(o) ==
  /\ phase[o] = "live"
  /\ phase' = [phase EXCEPT ![o] = IF guarded[o] THEN "deleting" ELSE "gone"]
  /\ UNCHANGED <<guarded, policy, recorded, tunnel>>

\* The finalizer comes before anything else, and is never put on an object
\* that is being deleted.
Guard(o) ==
  /\ phase[o] = "live" /\ guarded' = [guarded EXCEPT ![o] = TRUE]
  /\ UNCHANGED <<phase, policy, recorded, tunnel>>

Make(o, t) ==
  /\ Exists(o) /\ guarded[o] /\ ~Has(o)
  /\ tunnel[t].state = "unused"
  /\ tunnel' = [tunnel EXCEPT ![t] = [state |-> "live", owner |-> o]]
  /\ UNCHANGED <<phase, guarded, policy, recorded>>

\* The status names a tunnel that was made for the object, or none.
Record(o, t) ==
  /\ Exists(o) /\ guarded[o]
  /\ t # NoTunnel => tunnel[t].state # "unused" /\ tunnel[t].owner = o
  /\ recorded' = [recorded EXCEPT ![o] = t]
  /\ UNCHANGED <<phase, guarded, policy, tunnel>>

\* finalize deletes the tunnel that the status names.
Release(o, t) ==
  /\ Live(t) /\ tunnel[t].owner = o
  /\ \/ phase[o] = "deleting" /\ recorded[o] = t
     \/ phase[o] \in {"deleting", "gone"} /\ OldCopies
  /\ tunnel' = [tunnel EXCEPT ![t].state = "deleted"]
  /\ UNCHANGED <<phase, guarded, policy, recorded>>

\* Somebody else removes a tunnel.
Lose(t) ==
  /\ Live(t) /\ tunnel' = [tunnel EXCEPT ![t].state = "removed"]
  /\ UNCHANGED <<phase, guarded, policy, recorded>>

Finish(o) ==
  /\ phase[o] = "deleting"
  /\ policy[o] = "Delete" /\ recorded[o] # NoTunnel => ~Live(recorded[o])
  /\ phase' = [phase EXCEPT ![o] = "gone"]
  /\ guarded' = [guarded EXCEPT ![o] = FALSE]
  /\ UNCHANGED <<policy, recorded, tunnel>>

Next ==
  \/ \E o \in Owners : Appear(o) \/ EditPolicy(o) \/ Delete(o) \/ Guard(o) \/ Finish(o)
  \/ \E o \in Owners, t \in Tunnels : Make(o, t) \/ Release(o, t)
  \/ \E o \in Owners, t \in Tunnels \cup {NoTunnel} : Record(o, t)
  \/ \E t \in Tunnels : Lose(t)

Spec == Init /\ [][Next]_vars
=============================================================================
