------------------------------ MODULE Sandbox ------------------------------
(***************************************************************************)
(* The life of one sandbox (harness/src/sandbox/control.ts): fibers of a   *)
(* server create, mount, inspect, wake, stop and destroy it, in any order  *)
(* and each cut off anywhere, while its provider stops or loses it of its  *)
(* own accord and the server dies.                                         *)
(*                                                                         *)
(* Three parts of the state disagree by turns: the row of table `sandbox`, *)
(* which is what was last observed; the references held in memory, which   *)
(* only this process knows; and the resource of the provider.  A gate (one *)
(* permit) makes the test of the references and the claim of the row one   *)
(* step.  Observations are written outside the gate.                       *)
(***************************************************************************)
EXTENDS Naturals, FiniteSets

CONSTANTS
  Fibers,      \* fibers of the server that use the sandbox
  MaxCrashes   \* bound: deaths of the process

ASSUME SandboxAssumption == IsFiniteSet(Fibers) /\ MaxCrashes \in Nat

Statuses == {"provisioning", "online", "offline", "suspending", "removing",
             "removed", "unavail", "faulted"}

VARIABLES
  status,      \* of the row; "absent" before it is inserted
  config,      \* the row has a runtime config
  managed,     \* its ownership: managed, or external
  resource,    \* at the provider: "none" | "up" | "down" | "gone"
  refs,        \* refs.get(id), in memory
  cached,      \* the transport cache has an entry
  pc,          \* [Fibers -> where each is]
  held,        \* [Fibers -> lease.held]
  seen,        \* [Fibers -> a status it has read or was told, or "none"]
  forced,      \* [Fibers -> options.force of a destroy]
  observed,    \* history: an observation was written over a claim in flight
  orphan,      \* history: the claim in the row is nobody's
  crashes

row     == <<status, config, managed>>
memory  == <<refs, cached>>
history == <<observed, orphan>>
vars    == <<row, resource, memory, pc, held, seen, forced, history, crashes>>

(* Where the scope of a lease is open, which ends with its finalizer.      *)
Leased == {"reserved", "refused", "creating", "finalizing", "created",
           "attaching", "attached", "mounted", "leaving"}
Places == Leased \cup
          {"idle", "mounting", "claimed", "stopping", "stopped", "removing",
           "removed", "inspecting", "waking", "told"}

Init ==
  /\ status = "absent" /\ config = FALSE /\ managed = TRUE /\ resource = "none"
  /\ refs = 0 /\ cached = FALSE /\ crashes = 0
  /\ pc = [f \in Fibers |-> "idle"] /\ held = [f \in Fibers |-> FALSE]
  /\ seen = [f \in Fibers |-> "none"] /\ forced = [f \in Fibers |-> FALSE]
  /\ observed = FALSE /\ orphan = FALSE

-----------------------------------------------------------------------------
At(place)  == {f \in Fibers : pc[f] = place}
Stopping   == At("claimed") \cup At("stopping") \cup At("stopped")
Destroying == At("removing") \cup At("removed")
Working    == Stopping \cup Destroying
Holders    == {f \in Fibers : held[f]}
Users      == Holders \ (At("reserved") \cup At("refused"))
Mountable  == {"online", "offline", "faulted"}

Goto(f, place) ==
  pc' = [pc EXCEPT ![f] = place] /\ UNCHANGED <<held, seen, forced>>
Learns(f, place, s) ==
  /\ pc' = [pc EXCEPT ![f] = place] /\ seen' = [seen EXCEPT ![f] = s]
  /\ UNCHANGED <<held, forced>>
(* Takes a reference and records it in its lease.                          *)
Takes(f, place) ==
  /\ refs' = refs + 1 /\ held' = [held EXCEPT ![f] = TRUE]
  /\ pc' = [pc EXCEPT ![f] = place] /\ UNCHANGED <<seen, forced>>
(* The operation is over: a lease it holds is left to its finalizer.       *)
After(f) == CASE ~held[f]            -> "idle"
              [] pc[f] = "reserved" -> "refused"
              [] OTHER              -> "leaving"
Ends(f) ==
  /\ pc' = [pc EXCEPT ![f] = After(f)]
  /\ seen' = [seen EXCEPT ![f] = "none"]
  /\ forced' = [forced EXCEPT ![f] = FALSE] /\ UNCHANGED held

(* The row is claimed, written by whoever works on it, or overwritten with *)
(* what somebody has observed.                                             *)
Claims(s) ==
  /\ status' = s /\ orphan' = FALSE /\ observed' = (Working # {})
  /\ UNCHANGED <<config, managed>>
Writes(s) ==
  /\ status' = s /\ orphan' = FALSE /\ UNCHANGED <<config, managed, observed>>
Observes(s) ==
  /\ status' = s /\ orphan' = (s = "suspending")
  /\ observed' = (observed \/ Working # {}) /\ UNCHANGED <<config, managed>>

-----------------------------------------------------------------------------
(* Creation and registration.                                              *)

(* createAndMount takes its reference before the row is inserted, and      *)
(* whatever there is under the id its caller has chosen.                   *)
Reserves(f) ==
  /\ pc[f] = "idle" /\ Takes(f, "reserved")
  /\ UNCHANGED <<row, resource, cached, history, crashes>>

Creates(f) ==
  /\ pc[f] \in {"idle", "reserved"} /\ status = "absent"
  /\ Writes("provisioning") /\ Goto(f, "creating")
  /\ UNCHANGED <<resource, memory, crashes>>

(* Faulty: the lease is tied to its scope only once the row is inserted.   *)
CreateRefusedLeaking(f) ==
  /\ pc[f] = "reserved" /\ status # "absent" /\ Goto(f, "idle")
  /\ UNCHANGED <<row, resource, memory, history, crashes>>
(* The id is taken.                                                        *)
CreateRefused(f) ==
  /\ pc[f] = "reserved" /\ status # "absent" /\ Ends(f)
  /\ UNCHANGED <<row, resource, memory, history, crashes>>

Provisions(f) ==
  /\ pc[f] = "creating" /\ resource' = "up" /\ Goto(f, "finalizing")
  /\ UNCHANGED <<row, memory, history, crashes>>

ProvisionFails(f) ==
  /\ pc[f] = "creating" /\ Writes("faulted") /\ Ends(f)
  /\ UNCHANGED <<resource, memory, crashes>>

(* Nobody can have moved the row: without a config nothing may run on it.  *)
Finalizes(f) ==
  /\ pc[f] = "finalizing" /\ status = "provisioning"
  /\ status' = "online" /\ config' = TRUE
  /\ IF held[f] THEN Goto(f, "created") ELSE Ends(f)
  /\ UNCHANGED <<managed, resource, memory, history, crashes>>

(* It cannot be written: the resource is destroyed again, if that works.   *)
FinalizeFails(f) ==
  /\ pc[f] = "finalizing" /\ Writes("faulted") /\ Ends(f)
  /\ resource' \in {"gone", resource} /\ UNCHANGED <<memory, crashes>>

Registers(f) ==
  /\ pc[f] = "idle" /\ status = "absent"
  /\ status' = "online" /\ config' = TRUE /\ managed' = FALSE
  /\ resource' = "up"
  /\ UNCHANGED <<memory, pc, held, seen, forced, history, crashes>>

-----------------------------------------------------------------------------
(* Mounts.                                                                 *)

(* The row is read; whoever has reserved its reference needs no gate.      *)
Mounts(f) ==
  /\ pc[f] \in {"idle", "created"} /\ status \in Mountable /\ config
  /\ Learns(f, IF held[f] THEN "attaching" ELSE "mounting", status)
  /\ UNCHANGED <<row, resource, memory, history, crashes>>

MountRefused(f) ==
  /\ pc[f] = "created" /\ ~(status \in Mountable /\ config) /\ Ends(f)
  /\ UNCHANGED <<row, resource, memory, history, crashes>>

(* Under the gate the row is read again and the reference taken.  The      *)
(* first of the leases drops a transport from before the row went offline. *)
Leases(f) ==
  /\ pc[f] = "mounting" /\ status \in Mountable /\ Takes(f, "attaching")
  /\ cached' = (cached /\ (refs > 0 \/ seen[f] = "online"))
  /\ UNCHANGED <<row, resource, history, crashes>>

LeaseRefused(f) ==
  /\ pc[f] = "mounting" /\ status \notin Mountable /\ Ends(f)
  /\ UNCHANGED <<row, resource, memory, history, crashes>>

(* A cached transport is used as it is; a new one wakes the resource.      *)
Attaches(f) ==
  /\ pc[f] = "attaching" /\ Goto(f, "attached")
  /\ \/ cached /\ UNCHANGED <<resource, cached>>
     \/ /\ ~cached /\ resource \in {"up", "down"}
        /\ resource' = "up" /\ cached' = TRUE
  /\ UNCHANGED <<row, refs, history, crashes>>

AttachFails(f) ==
  /\ pc[f] = "attaching" /\ ~cached /\ Ends(f)
  /\ Observes(IF resource = "gone" THEN "unavail" ELSE "faulted")
  /\ UNCHANGED <<resource, memory, crashes>>

Mounted(f) ==
  /\ pc[f] = "attached" /\ Goto(f, "mounted") /\ Observes("online")
  /\ UNCHANGED <<resource, memory, crashes>>

Unmounts(f) ==
  /\ pc[f] = "mounted" /\ Ends(f)
  /\ UNCHANGED <<row, resource, memory, history, crashes>>

Releases(f) ==
  /\ pc[f] \in {"refused", "leaving"} /\ held[f]
  /\ refs' = (IF refs = 0 THEN 0 ELSE refs - 1)
  /\ held' = [held EXCEPT ![f] = FALSE] /\ pc' = [pc EXCEPT ![f] = "idle"]
  /\ UNCHANGED <<row, resource, cached, seen, forced, history, crashes>>

-----------------------------------------------------------------------------
(* Observations: refresh asks the provider, wake starts the resource; both *)
(* write what they were told, whatever the row has become meanwhile.       *)

Refreshes(f) ==
  /\ pc[f] = "idle" /\ config /\ Goto(f, "inspecting")
  /\ UNCHANGED <<row, resource, memory, history, crashes>>

Wakes(f) ==
  /\ pc[f] = "idle" /\ config /\ status # "removed"
  /\ Goto(f, "waking") /\ cached' = (cached /\ refs > 0)
  /\ UNCHANGED <<row, resource, refs, history, crashes>>

(* What a provider says of its resource; a failed call says "faulted".     *)
Answers == CASE resource = "up"   -> {"online", "suspending", "faulted"}
             [] resource = "down" -> {"offline", "faulted"}
             [] OTHER             -> {"unavail", "faulted"}

Inspected(f) ==
  /\ pc[f] = "inspecting" /\ \E s \in Answers : Learns(f, "told", s)
  /\ UNCHANGED <<row, resource, memory, history, crashes>>

Woken(f) ==
  /\ pc[f] = "waking"
  /\ \/ /\ resource \in {"up", "down"} /\ resource' = "up"
        /\ Learns(f, "told", "online")
     \/ /\ \E s \in Answers \cap {"unavail", "faulted"} : Learns(f, "told", s)
        /\ UNCHANGED resource
  /\ UNCHANGED <<row, memory, history, crashes>>

UpdateObservation(f) ==
  /\ pc[f] = "told" /\ Observes(seen[f]) /\ Ends(f)
  /\ UNCHANGED <<resource, memory, crashes>>

-----------------------------------------------------------------------------
(* Stop.                                                                   *)

Stoppable == {"online", "faulted", "unavail"}

(* Faulty: the references are counted before the gate.                     *)
StopClaimsUncounted(f) ==
  /\ pc[f] = "idle" /\ managed /\ status \in Stoppable
  /\ Claims("suspending") /\ Goto(f, "claimed")
  /\ UNCHANGED <<resource, memory, crashes>>
(* Faulty: a stop that finds another one at work joins in.                 *)
StopClaimsAgain(f) ==
  /\ pc[f] = "idle" /\ managed /\ refs = 0
  /\ status \in Stoppable \cup {"suspending"}
  /\ status' = "suspending" /\ Goto(f, "claimed")
  /\ UNCHANGED <<config, managed, history, resource, memory, crashes>>
(* Faulty: a stop that is cut off leaves its claim.                        *)
StopIsCutClaimed(f) ==
  /\ pc[f] = "stopping" /\ Ends(f)
  /\ UNCHANGED <<row, resource, memory, history, crashes>>
(* Under the gate: nobody may hold the sandbox, and the row is claimed.    *)
StopClaims(f) ==
  /\ pc[f] = "idle" /\ managed /\ refs = 0 /\ status \in Stoppable
  /\ Claims("suspending") /\ Goto(f, "claimed")
  /\ UNCHANGED <<resource, memory, crashes>>

(* The transport goes.  A row without a config fails here, still claimed.  *)
StopBegins(f) ==
  /\ pc[f] = "claimed" /\ cached' = FALSE
  /\ IF config THEN Goto(f, "stopping") /\ UNCHANGED history
               ELSE Ends(f) /\ orphan' = TRUE /\ UNCHANGED observed
  /\ UNCHANGED <<row, resource, refs, crashes>>

StopAnswers(f) ==
  /\ pc[f] = "stopping" /\ resource \in {"up", "down"}
  /\ resource' = "down" /\ Goto(f, "stopped")
  /\ UNCHANGED <<row, memory, history, crashes>>

StopFails(f) ==
  /\ pc[f] = "stopping" /\ Ends(f)
  /\ Writes(IF resource = "gone" THEN "unavail" ELSE "faulted")
  /\ UNCHANGED <<resource, memory, crashes>>

StopEnds(f) ==
  /\ pc[f] = "stopped" /\ Writes("offline") /\ Ends(f)
  /\ UNCHANGED <<resource, memory, crashes>>

-----------------------------------------------------------------------------
(* Destroy.                                                                *)

(* Faulty: the status to go back to is not kept.                           *)
DestroyClaimsBlindly(f) ==
  /\ pc[f] = "idle" /\ managed /\ config /\ status \in {"offline", "unavail"}
  /\ \E force \in BOOLEAN :
       (refs = 0 \/ force) /\ forced' = [forced EXCEPT ![f] = force]
  /\ Claims("removing") /\ pc' = [pc EXCEPT ![f] = "removing"]
  /\ cached' = FALSE /\ UNCHANGED <<resource, refs, held, seen, crashes>>
(* Only a forced one does not mind the leases there are.                   *)
DestroyClaims(f) ==
  /\ pc[f] = "idle" /\ managed /\ config /\ status \in {"offline", "unavail"}
  /\ \E force \in BOOLEAN :
       (refs = 0 \/ force) /\ forced' = [forced EXCEPT ![f] = force]
  /\ seen' = [seen EXCEPT ![f] = status] /\ UNCHANGED held
  /\ Claims("removing") /\ pc' = [pc EXCEPT ![f] = "removing"]
  /\ cached' = FALSE /\ UNCHANGED <<resource, refs, crashes>>

Destroys(f) ==
  /\ pc[f] = "removing" /\ resource' = "gone" /\ Goto(f, "removed")
  /\ UNCHANGED <<row, memory, history, crashes>>

(* Faulty: a provider that fails is taken for one that finds nothing.      *)
DestroyFailsQuietly(f) ==
  /\ pc[f] = "removing" /\ Goto(f, "removed")
  /\ UNCHANGED <<row, resource, memory, history, crashes>>
(* The row is given back as it was found.                                  *)
DestroyFails(f) ==
  /\ pc[f] = "removing" /\ Writes(seen[f]) /\ Ends(f)
  /\ UNCHANGED <<resource, memory, crashes>>

(* The tombstone, with the archival of what the sandbox held.              *)
Tombstones(f) ==
  /\ pc[f] = "removed" /\ Writes("removed") /\ Ends(f)
  /\ UNCHANGED <<resource, memory, crashes>>

-----------------------------------------------------------------------------
(* Interrupts, the provider, and the process.                              *)

(* An operation whose caller goes away.  A call in flight may or may not   *)
(* have reached the provider, and a claim is left in the row.              *)
Cut(f) ==
  /\ pc[f] \notin {"idle", "mounted", "refused", "leaving", "stopping",
                   "stopped"}
  /\ Ends(f)
  /\ CASE pc[f] = "creating" -> resource' \in {resource, "up"}
       [] pc[f] = "removing" -> resource' \in {resource, "gone"}
       [] OTHER              -> UNCHANGED resource
  /\ orphan' = (orphan \/ (f \in Working /\ status \in {"suspending", "removing"}))
  /\ UNCHANGED <<row, memory, observed, crashes>>

(* Once it has begun, only the provider's call of a stop can be cut off.   *)
StopIsCut(f) ==
  /\ pc[f] = "stopping" /\ Writes("faulted") /\ Ends(f)
  /\ resource' \in (IF resource = "up" THEN {"up", "down"} ELSE {resource})
  /\ UNCHANGED <<memory, crashes>>

(* The provider stops the resource by itself, or loses it.                 *)
Drifts ==
  /\ \/ resource = "up" /\ resource' = "down"
     \/ resource \in {"up", "down"} /\ resource' = "gone"
  /\ UNCHANGED <<row, memory, pc, held, seen, forced, history, crashes>>

(* The transport's idle time is over.                                      *)
Evicts ==
  /\ cached /\ refs = 0 /\ cached' = FALSE
  /\ UNCHANGED <<row, resource, refs, pc, held, seen, forced, history, crashes>>

(* A new process holds nothing; it gives up creations that are old enough. *)
Crash ==
  /\ crashes < MaxCrashes /\ crashes' = crashes + 1
  /\ refs' = 0 /\ cached' = FALSE
  /\ pc' = [f \in Fibers |-> "idle"] /\ held' = [f \in Fibers |-> FALSE]
  /\ seen' = [f \in Fibers |-> "none"] /\ forced' = [f \in Fibers |-> FALSE]
  /\ observed' = FALSE /\ orphan' = (status \in {"suspending", "removing"})
  /\ status' \in IF status = "provisioning" THEN {status, "faulted"}
                                            ELSE {status}
  /\ UNCHANGED <<config, managed, resource>>

Next ==
  \/ \E f \in Fibers :
       \/ Reserves(f) \/ Creates(f) \/ CreateRefused(f) \/ Provisions(f)
       \/ ProvisionFails(f) \/ Finalizes(f) \/ FinalizeFails(f) \/ Registers(f)
       \/ Mounts(f) \/ MountRefused(f) \/ Leases(f) \/ LeaseRefused(f)
       \/ Attaches(f) \/ AttachFails(f) \/ Mounted(f) \/ Unmounts(f)
       \/ Releases(f) \/ Refreshes(f) \/ Wakes(f) \/ Inspected(f) \/ Woken(f)
       \/ UpdateObservation(f) \/ StopClaims(f) \/ StopBegins(f)
       \/ StopAnswers(f) \/ StopFails(f) \/ StopEnds(f) \/ DestroyClaims(f)
       \/ Destroys(f) \/ DestroyFails(f) \/ Tombstones(f) \/ Cut(f)
       \/ StopIsCut(f)
  \/ Drifts \/ Evicts \/ Crash

Spec == Init /\ [][Next]_vars

-----------------------------------------------------------------------------
(* The types of the row, the references and the fibers.                    *)
TypeOK ==
  /\ status \in Statuses \cup {"absent"}
  /\ resource \in {"none", "up", "down", "gone"}
  /\ {config, managed, cached, observed, orphan} \subseteq BOOLEAN
  /\ refs \in Nat /\ crashes \in 0 .. MaxCrashes
  /\ pc \in [Fibers -> Places] /\ held \in [Fibers -> BOOLEAN]
  /\ seen \in [Fibers -> Statuses \cup {"none"}]
  /\ forced \in [Fibers -> BOOLEAN]

(* The references are the leases held, and whoever holds one is in its     *)
(* scope, at the end of which it is given back: none is taken twice by a   *)
(* sandbox that is created and mounted in one go, none is left behind when *)
(* a creation is refused, fails or is cut off at any of its steps, and     *)
(* none is given back by somebody who has none (control.ts:206-238,        *)
(* 636-662, 970-983).                                                      *)
RefsAreLeases ==
  /\ refs = Cardinality(Holders)
  /\ \A f \in Holders : pc[f] \in Leased

(* While a stop, or a removal that is not forced, works on the sandbox,    *)
(* nobody uses it, and nobody can come to use it, unless an observation    *)
(* has overwritten the claim meanwhile (control.ts:636-658, 802-829,       *)
(* 878-900).  Who only has a reference to an id that is taken will be      *)
(* refused, and gives it back.                                             *)
LeaseExcludesStop ==
  \A f \in Working : (~forced[f] /\ ~observed) => Users = {}

(* A claim is left by nobody who could put it right: when no stop and no   *)
(* removal is at work, the claim is one its process took to the grave, one *)
(* of a removal that was cut off, or of a stop cut off before it began or  *)
(* that found no config, or what a provider said (control.ts:831-866,      *)
(* 901-935).  A stop cut off in its work and a provider that fails strand  *)
(* nothing.                                                                *)
ClaimIsWorkedOn ==
  ~orphan => /\ status = "suspending" => Stopping # {}
             /\ status = "removing"   => Destroying # {}

(* At most one stop or removal works on the sandbox, and the row says      *)
(* which: claims are compared and set under the gate (control.ts:802-829,  *)
(* 878-900), with the same exception.  A row that says so has one at work. *)
OneClaim ==
  /\ (Working # {} /\ ~observed) =>
       /\ \A f, g \in Working : f = g
       /\ status = IF Stopping # {} THEN "suspending" ELSE "removing"
  /\ ClaimIsWorkedOn

(* A tombstone is not written over a resource that is still there.         *)
(* (control.ts:907-935).                                                   *)
RemovedMeansGone == status = "removed" => resource = "gone"

(* "`suspending` and `removing` stay because they *are* compare-and-set    *)
(* claims, blocking a concurrent mount mid-destruction": instance.ts.  They*)
(* do not once an observation has been written over them.                  *)
ClaimsBlockMounts ==
  \A f \in Working : ~forced[f] => Users = {}

=============================================================================
