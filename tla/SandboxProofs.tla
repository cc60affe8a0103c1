---------------------------- MODULE SandboxProofs ----------------------------
(***************************************************************************)
(* What module Sandbox promises, for any number of fibers and of deaths.   *)
(*                                                                         *)
(* A claim excludes the leases and the other claims because whoever sets   *)
(* one has found the row in a status nobody works under (Claimed); what    *)
(* else writes the row works under the claim, or has created the row and   *)
(* is alone with it (Created), or is an observation, which the history     *)
(* variable `observed` tells.                                              *)
(***************************************************************************)
EXTENDS Sandbox, FiniteSetTheorems, TLAPS

Creating == {"creating", "finalizing"}
Refusable == {"reserved", "refused"}
Knowing == {"created", "mounting", "attaching", "attached", "mounted",
            "inspecting", "waking", "told", "stopping", "stopped",
            "removing", "removed"}
Stops == {"claimed", "stopping", "stopped"}
Works == Stops \cup {"removing", "removed"}

(* Where a fiber has a lease, where it is forced, and what it goes back to.*)
Placed ==
  \A f \in Fibers :
    /\ pc[f] \in Leased \ Creating => held[f]
    /\ held[f] => pc[f] \in Leased
    /\ forced[f] => pc[f] \in {"removing", "removed"}
    /\ pc[f] = "removing" => seen[f] \in {"offline", "unavail"}
    /\ pc[f] = "told" => seen[f] \in Statuses \ {"provisioning", "removing"}

(* Whoever creates the row is alone with it: nothing can be done to a row  *)
(* without a runtime config that moves it from `provisioning`.             *)
Created ==
  /\ config => status \notin {"absent", "provisioning"}
  /\ \A f \in Fibers :
       /\ pc[f] \in Creating => status = "provisioning"
       /\ pc[f] \in Knowing => config
       /\ \A g \in Fibers : pc[f] \in Creating /\ pc[g] \in Creating => f = g

(* The claims of OneClaim, by the places of the fibers.                    *)
Claimed ==
  \A f \in Fibers :
    pc[f] \in Works /\ ~observed =>
      /\ status = IF pc[f] \in Stops THEN "suspending" ELSE "removing"
      /\ \A g \in Fibers : pc[g] \in Works => f = g
      /\ ~forced[f] => \A g \in Fibers : held[g] => pc[g] \in Refusable

(* A claim is forgotten by nobody.                                         *)
Removals == {"removing", "removed"}
Kept ==
  ~orphan =>
    /\ status = "suspending" => \E f \in Fibers : pc[f] \in Stops
    /\ status = "removing"   => \E f \in Fibers : pc[f] \in Removals

Counted == refs = Cardinality(Holders)

LEMMA WorkingPlaces ==
  ASSUME TypeOK
  PROVE  /\ Working = {f \in Fibers : pc[f] \in Works}
         /\ Stopping = {f \in Fibers : pc[f] \in Stops}
         /\ Destroying = {f \in Fibers : pc[f] \in Removals}
BY DEF Working, Stopping, Destroying, At, Works, Stops, Removals

(* Without references nobody has a lease.                                  *)
LEMMA NoHolder ==
  ASSUME TypeOK, Counted, refs = 0
  PROVE  \A g \in Fibers : ~held[g]
<1>1. IsFiniteSet(Holders)
  BY SandboxAssumption, FS_Subset DEF Holders
<1>2. Holders = {}
  BY <1>1, FS_EmptySet DEF Counted
<1>3. QED
  BY <1>2 DEF Holders

(* The types.                                                              *)
LEMMA TypeStep ==
  ASSUME TypeOK, Placed, [Next]_vars
  PROVE  TypeOK'
<1> USE SandboxAssumption DEF TypeOK, Placed, Statuses, Places, Leased, row,
        memory, history, vars, Goto, Learns, Takes, Ends, After, Claims,
        Writes, Observes, Mountable, Stoppable, Answers
<1>11. ASSUME NEW f \in Fibers, Reserves(f) PROVE TypeOK'
  BY <1>11 DEF Reserves
<1>12. ASSUME NEW f \in Fibers, Creates(f) PROVE TypeOK'
  BY <1>12 DEF Creates
<1>13. ASSUME NEW f \in Fibers, CreateRefused(f) PROVE TypeOK'
  BY <1>13 DEF CreateRefused
<1>14. ASSUME NEW f \in Fibers, Provisions(f) PROVE TypeOK'
  BY <1>14 DEF Provisions
<1>15. ASSUME NEW f \in Fibers, ProvisionFails(f) PROVE TypeOK'
  BY <1>15 DEF ProvisionFails
<1>16. ASSUME NEW f \in Fibers, Finalizes(f) PROVE TypeOK'
  <2>1. CASE held[f]
    BY <1>16, <2>1 DEF Finalizes
  <2>2. CASE ~held[f]
    BY <1>16, <2>2 DEF Finalizes
  <2>3. QED
    BY <2>1, <2>2
<1>17. ASSUME NEW f \in Fibers, FinalizeFails(f) PROVE TypeOK'
  BY <1>17 DEF FinalizeFails
<1>18. ASSUME NEW f \in Fibers, Registers(f) PROVE TypeOK'
  BY <1>18 DEF Registers
<1>19. ASSUME NEW f \in Fibers, Mounts(f) PROVE TypeOK'
  BY <1>19 DEF Mounts
<1>20. ASSUME NEW f \in Fibers, MountRefused(f) PROVE TypeOK'
  BY <1>20 DEF MountRefused
<1>21. ASSUME NEW f \in Fibers, Leases(f) PROVE TypeOK'
  BY <1>21 DEF Leases
<1>22. ASSUME NEW f \in Fibers, LeaseRefused(f) PROVE TypeOK'
  BY <1>22 DEF LeaseRefused
<1>23. ASSUME NEW f \in Fibers, Attaches(f) PROVE TypeOK'
  BY <1>23 DEF Attaches
<1>24. ASSUME NEW f \in Fibers, AttachFails(f) PROVE TypeOK'
  BY <1>24 DEF AttachFails
<1>25. ASSUME NEW f \in Fibers, Mounted(f) PROVE TypeOK'
  BY <1>25 DEF Mounted
<1>26. ASSUME NEW f \in Fibers, Unmounts(f) PROVE TypeOK'
  BY <1>26 DEF Unmounts
<1>27. ASSUME NEW f \in Fibers, Releases(f) PROVE TypeOK'
  BY <1>27 DEF Releases
<1>28. ASSUME NEW f \in Fibers, Refreshes(f) PROVE TypeOK'
  BY <1>28 DEF Refreshes
<1>29. ASSUME NEW f \in Fibers, Wakes(f) PROVE TypeOK'
  BY <1>29 DEF Wakes
<1>30. ASSUME NEW f \in Fibers, Inspected(f) PROVE TypeOK'
  BY <1>30 DEF Inspected
<1>31. ASSUME NEW f \in Fibers, Woken(f) PROVE TypeOK'
  BY <1>31 DEF Woken
<1>32. ASSUME NEW f \in Fibers, UpdateObservation(f) PROVE TypeOK'
  BY <1>32 DEF UpdateObservation
<1>33. ASSUME NEW f \in Fibers, StopClaims(f) PROVE TypeOK'
  BY <1>33 DEF StopClaims
<1>34. ASSUME NEW f \in Fibers, StopBegins(f) PROVE TypeOK'
  <2>1. CASE config
    BY <1>34, <2>1 DEF StopBegins
  <2>2. CASE ~config
    <3>1. Ends(f) /\ orphan' = TRUE /\ UNCHANGED <<row, resource, refs, crashes,
                                                  observed>> /\ cached' = FALSE
      BY <1>34, <2>2 DEF StopBegins
    <3>2. After(f) \in Places
      OBVIOUS
    <3>3. pc' \in [Fibers -> Places]
      BY <3>1, <3>2
    <3>4. QED
      BY <3>1, <3>3
  <2>3. QED
    BY <2>1, <2>2
<1>35. ASSUME NEW f \in Fibers, StopAnswers(f) PROVE TypeOK'
  BY <1>35 DEF StopAnswers
<1>36. ASSUME NEW f \in Fibers, StopFails(f) PROVE TypeOK'
  BY <1>36 DEF StopFails
<1>37. ASSUME NEW f \in Fibers, StopEnds(f) PROVE TypeOK'
  BY <1>37 DEF StopEnds
<1>38. ASSUME NEW f \in Fibers, DestroyClaims(f) PROVE TypeOK'
  BY <1>38 DEF DestroyClaims
<1>39. ASSUME NEW f \in Fibers, Destroys(f) PROVE TypeOK'
  BY <1>39 DEF Destroys
<1>40. ASSUME NEW f \in Fibers, DestroyFails(f) PROVE TypeOK'
  BY <1>40 DEF DestroyFails
<1>41. ASSUME NEW f \in Fibers, Tombstones(f) PROVE TypeOK'
  BY <1>41 DEF Tombstones
<1>42. ASSUME NEW f \in Fibers, Cut(f) PROVE TypeOK'
  BY <1>42 DEF Cut
<1>43. ASSUME NEW f \in Fibers, StopIsCut(f) PROVE TypeOK'
  BY <1>43 DEF StopIsCut
<1>44. CASE Drifts
  BY <1>44 DEF Drifts
<1>45. CASE Evicts
  BY <1>45 DEF Evicts
<1>46. CASE Crash
  <2>1. status' \in {status, "faulted"}
    BY <1>46 DEF Crash
  <2>2. /\ refs' \in Nat /\ crashes' \in 0 .. MaxCrashes
        /\ resource' = resource /\ cached' = FALSE /\ observed' = FALSE
        /\ config' = config /\ managed' = managed
    BY <1>46 DEF Crash
  <2>3. orphan' \in BOOLEAN
    BY <1>46 DEF Crash
  <2>4. /\ pc' \in [Fibers -> Places] /\ held' \in [Fibers -> BOOLEAN]
        /\ seen' \in [Fibers -> Statuses \cup {"none"}]
        /\ forced' \in [Fibers -> BOOLEAN]
    BY <1>46 DEF Crash
  <2>5. QED
    BY <2>1, <2>2, <2>3, <2>4
<1>47. CASE UNCHANGED vars
  BY <1>47
<1>48. QED
  BY <1>11, <1>12, <1>13, <1>14, <1>15, <1>16, <1>17, <1>18, <1>19, <1>20,
     <1>21, <1>22, <1>23, <1>24, <1>25, <1>26, <1>27, <1>28, <1>29, <1>30,
     <1>31, <1>32, <1>33, <1>34, <1>35, <1>36, <1>37, <1>38, <1>39, <1>40,
     <1>41, <1>42, <1>43, <1>44, <1>45, <1>46, <1>47 DEF Next

(* Leases, force and what was seen.                                        *)
LEMMA PlacedStep ==
  ASSUME TypeOK, Placed, [Next]_vars
  PROVE  Placed'
<1> USE SandboxAssumption DEF TypeOK, Placed, Statuses, Places, Leased,
        Creating, row, memory, history, vars, Goto, Learns, Takes, Ends, After,
        Claims, Writes, Observes, Mountable, Stoppable, Answers
<1>11. ASSUME NEW f \in Fibers, Reserves(f) PROVE Placed'
  BY <1>11 DEF Reserves
<1>12. ASSUME NEW f \in Fibers, Creates(f) PROVE Placed'
  BY <1>12 DEF Creates
<1>13. ASSUME NEW f \in Fibers, CreateRefused(f) PROVE Placed'
  BY <1>13 DEF CreateRefused
<1>14. ASSUME NEW f \in Fibers, Provisions(f) PROVE Placed'
  BY <1>14 DEF Provisions
<1>15. ASSUME NEW f \in Fibers, ProvisionFails(f) PROVE Placed'
  BY <1>15 DEF ProvisionFails
<1>16. ASSUME NEW f \in Fibers, Finalizes(f) PROVE Placed'
  BY <1>16 DEF Finalizes
<1>17. ASSUME NEW f \in Fibers, FinalizeFails(f) PROVE Placed'
  BY <1>17 DEF FinalizeFails
<1>18. ASSUME NEW f \in Fibers, Registers(f) PROVE Placed'
  BY <1>18 DEF Registers
<1>19. ASSUME NEW f \in Fibers, Mounts(f) PROVE Placed'
  BY <1>19 DEF Mounts
<1>20. ASSUME NEW f \in Fibers, MountRefused(f) PROVE Placed'
  BY <1>20 DEF MountRefused
<1>21. ASSUME NEW f \in Fibers, Leases(f) PROVE Placed'
  BY <1>21 DEF Leases
<1>22. ASSUME NEW f \in Fibers, LeaseRefused(f) PROVE Placed'
  BY <1>22 DEF LeaseRefused
<1>23. ASSUME NEW f \in Fibers, Attaches(f) PROVE Placed'
  BY <1>23 DEF Attaches
<1>24. ASSUME NEW f \in Fibers, AttachFails(f) PROVE Placed'
  BY <1>24 DEF AttachFails
<1>25. ASSUME NEW f \in Fibers, Mounted(f) PROVE Placed'
  BY <1>25 DEF Mounted
<1>26. ASSUME NEW f \in Fibers, Unmounts(f) PROVE Placed'
  BY <1>26 DEF Unmounts
<1>27. ASSUME NEW f \in Fibers, Releases(f) PROVE Placed'
  BY <1>27 DEF Releases
<1>28. ASSUME NEW f \in Fibers, Refreshes(f) PROVE Placed'
  BY <1>28 DEF Refreshes
<1>29. ASSUME NEW f \in Fibers, Wakes(f) PROVE Placed'
  BY <1>29 DEF Wakes
<1>30. ASSUME NEW f \in Fibers, Inspected(f) PROVE Placed'
  BY <1>30 DEF Inspected
<1>31. ASSUME NEW f \in Fibers, Woken(f) PROVE Placed'
  BY <1>31 DEF Woken
<1>32. ASSUME NEW f \in Fibers, UpdateObservation(f) PROVE Placed'
  BY <1>32 DEF UpdateObservation
<1>33. ASSUME NEW f \in Fibers, StopClaims(f) PROVE Placed'
  BY <1>33 DEF StopClaims
<1>34. ASSUME NEW f \in Fibers, StopBegins(f) PROVE Placed'
  BY <1>34 DEF StopBegins
<1>35. ASSUME NEW f \in Fibers, StopAnswers(f) PROVE Placed'
  BY <1>35 DEF StopAnswers
<1>36. ASSUME NEW f \in Fibers, StopFails(f) PROVE Placed'
  BY <1>36 DEF StopFails
<1>37. ASSUME NEW f \in Fibers, StopEnds(f) PROVE Placed'
  BY <1>37 DEF StopEnds
<1>38. ASSUME NEW f \in Fibers, DestroyClaims(f) PROVE Placed'
  BY <1>38 DEF DestroyClaims
<1>39. ASSUME NEW f \in Fibers, Destroys(f) PROVE Placed'
  BY <1>39 DEF Destroys
<1>40. ASSUME NEW f \in Fibers, DestroyFails(f) PROVE Placed'
  BY <1>40 DEF DestroyFails
<1>41. ASSUME NEW f \in Fibers, Tombstones(f) PROVE Placed'
  BY <1>41 DEF Tombstones
<1>42. ASSUME NEW f \in Fibers, Cut(f) PROVE Placed'
  BY <1>42 DEF Cut
<1>43. ASSUME NEW f \in Fibers, StopIsCut(f) PROVE Placed'
  BY <1>43 DEF StopIsCut
<1>44. CASE Drifts
  BY <1>44 DEF Drifts
<1>45. CASE Evicts
  BY <1>45 DEF Evicts
<1>46. CASE Crash
  BY <1>46 DEF Crash
<1>47. CASE UNCHANGED vars
  BY <1>47
<1>48. QED
  BY <1>11, <1>12, <1>13, <1>14, <1>15, <1>16, <1>17, <1>18, <1>19, <1>20,
     <1>21, <1>22, <1>23, <1>24, <1>25, <1>26, <1>27, <1>28, <1>29, <1>30,
     <1>31, <1>32, <1>33, <1>34, <1>35, <1>36, <1>37, <1>38, <1>39, <1>40,
     <1>41, <1>42, <1>43, <1>44, <1>45, <1>46, <1>47 DEF Next

(* The creation.                                                           *)
LEMMA CreatedStep ==
  ASSUME TypeOK, Placed, Created, [Next]_vars
  PROVE  Created'
<1> USE SandboxAssumption DEF TypeOK, Placed, Created, Statuses, Places,
        Creating, Knowing, row, memory, history, vars, Goto, Learns, Takes,
        Ends, After, Claims, Writes, Observes, Mountable, Stoppable, Answers
<1>11. ASSUME NEW f \in Fibers, Reserves(f) PROVE Created'
  BY <1>11 DEF Reserves
<1>12. ASSUME NEW f \in Fibers, Creates(f) PROVE Created'
  BY <1>12 DEF Creates
<1>13. ASSUME NEW f \in Fibers, CreateRefused(f) PROVE Created'
  BY <1>13 DEF CreateRefused
<1>14. ASSUME NEW f \in Fibers, Provisions(f) PROVE Created'
  BY <1>14 DEF Provisions
<1>15. ASSUME NEW f \in Fibers, ProvisionFails(f) PROVE Created'
  BY <1>15 DEF ProvisionFails
<1>16. ASSUME NEW f \in Fibers, Finalizes(f) PROVE Created'
  BY <1>16 DEF Finalizes
<1>17. ASSUME NEW f \in Fibers, FinalizeFails(f) PROVE Created'
  BY <1>17 DEF FinalizeFails
<1>18. ASSUME NEW f \in Fibers, Registers(f) PROVE Created'
  BY <1>18 DEF Registers
<1>19. ASSUME NEW f \in Fibers, Mounts(f) PROVE Created'
  BY <1>19 DEF Mounts
<1>20. ASSUME NEW f \in Fibers, MountRefused(f) PROVE Created'
  BY <1>20 DEF MountRefused
<1>21. ASSUME NEW f \in Fibers, Leases(f) PROVE Created'
  BY <1>21 DEF Leases
<1>22. ASSUME NEW f \in Fibers, LeaseRefused(f) PROVE Created'
  BY <1>22 DEF LeaseRefused
<1>23. ASSUME NEW f \in Fibers, Attaches(f) PROVE Created'
  BY <1>23 DEF Attaches
<1>24. ASSUME NEW f \in Fibers, AttachFails(f) PROVE Created'
  BY <1>24 DEF AttachFails
<1>25. ASSUME NEW f \in Fibers, Mounted(f) PROVE Created'
  BY <1>25 DEF Mounted
<1>26. ASSUME NEW f \in Fibers, Unmounts(f) PROVE Created'
  BY <1>26 DEF Unmounts
<1>27. ASSUME NEW f \in Fibers, Releases(f) PROVE Created'
  BY <1>27 DEF Releases
<1>28. ASSUME NEW f \in Fibers, Refreshes(f) PROVE Created'
  BY <1>28 DEF Refreshes
<1>29. ASSUME NEW f \in Fibers, Wakes(f) PROVE Created'
  BY <1>29 DEF Wakes
<1>30. ASSUME NEW f \in Fibers, Inspected(f) PROVE Created'
  BY <1>30 DEF Inspected
<1>31. ASSUME NEW f \in Fibers, Woken(f) PROVE Created'
  BY <1>31 DEF Woken
<1>32. ASSUME NEW f \in Fibers, UpdateObservation(f) PROVE Created'
  BY <1>32 DEF UpdateObservation
<1>33. ASSUME NEW f \in Fibers, StopClaims(f) PROVE Created'
  BY <1>33 DEF StopClaims
<1>34. ASSUME NEW f \in Fibers, StopBegins(f) PROVE Created'
  BY <1>34 DEF StopBegins
<1>35. ASSUME NEW f \in Fibers, StopAnswers(f) PROVE Created'
  BY <1>35 DEF StopAnswers
<1>36. ASSUME NEW f \in Fibers, StopFails(f) PROVE Created'
  BY <1>36 DEF StopFails
<1>37. ASSUME NEW f \in Fibers, StopEnds(f) PROVE Created'
  BY <1>37 DEF StopEnds
<1>38. ASSUME NEW f \in Fibers, DestroyClaims(f) PROVE Created'
  BY <1>38 DEF DestroyClaims
<1>39. ASSUME NEW f \in Fibers, Destroys(f) PROVE Created'
  BY <1>39 DEF Destroys
<1>40. ASSUME NEW f \in Fibers, DestroyFails(f) PROVE Created'
  BY <1>40 DEF DestroyFails
<1>41. ASSUME NEW f \in Fibers, Tombstones(f) PROVE Created'
  BY <1>41 DEF Tombstones
<1>42. ASSUME NEW f \in Fibers, Cut(f) PROVE Created'
  BY <1>42 DEF Cut
<1>43. ASSUME NEW f \in Fibers, StopIsCut(f) PROVE Created'
  BY <1>43 DEF StopIsCut
<1>44. CASE Drifts
  BY <1>44 DEF Drifts
<1>45. CASE Evicts
  BY <1>45 DEF Evicts
<1>46. CASE Crash
  BY <1>46 DEF Crash
<1>47. CASE UNCHANGED vars
  BY <1>47
<1>48. QED
  BY <1>11, <1>12, <1>13, <1>14, <1>15, <1>16, <1>17, <1>18, <1>19, <1>20,
     <1>21, <1>22, <1>23, <1>24, <1>25, <1>26, <1>27, <1>28, <1>29, <1>30,
     <1>31, <1>32, <1>33, <1>34, <1>35, <1>36, <1>37, <1>38, <1>39, <1>40,
     <1>41, <1>42, <1>43, <1>44, <1>45, <1>46, <1>47 DEF Next

(* The claims.                                                             *)
LEMMA ClaimedStep ==
  ASSUME TypeOK, Placed, Created, Claimed, Counted, [Next]_vars
  PROVE  Claimed'
<1> USE SandboxAssumption DEF TypeOK, Placed, Created, Claimed, Creating,
        Knowing, Leased, Stops, Works, row, memory, history, vars, Goto,
        Learns, Takes, Ends, After, Refusable, Claims, Writes, Observes,
        Mountable, Stoppable,
        Answers
<1>1. Working = {f \in Fibers : pc[f] \in Works}
  BY WorkingPlaces
<1>2. refs = 0 => \A g \in Fibers : ~held[g]
  BY NoHolder
<1>11. ASSUME NEW f \in Fibers, Reserves(f) PROVE Claimed'
  BY <1>11 DEF Reserves
<1>12. ASSUME NEW f \in Fibers, Creates(f) PROVE Claimed'
  BY <1>12 DEF Creates
<1>13. ASSUME NEW f \in Fibers, CreateRefused(f) PROVE Claimed'
  BY <1>13 DEF CreateRefused
<1>14. ASSUME NEW f \in Fibers, Provisions(f) PROVE Claimed'
  BY <1>14 DEF Provisions
<1>15. ASSUME NEW f \in Fibers, ProvisionFails(f) PROVE Claimed'
  BY <1>15 DEF ProvisionFails
<1>16. ASSUME NEW f \in Fibers, Finalizes(f) PROVE Claimed'
  BY <1>16 DEF Finalizes
<1>17. ASSUME NEW f \in Fibers, FinalizeFails(f) PROVE Claimed'
  BY <1>17 DEF FinalizeFails
<1>18. ASSUME NEW f \in Fibers, Registers(f) PROVE Claimed'
  BY <1>18 DEF Registers
<1>19. ASSUME NEW f \in Fibers, Mounts(f) PROVE Claimed'
  BY <1>19 DEF Mounts
<1>20. ASSUME NEW f \in Fibers, MountRefused(f) PROVE Claimed'
  BY <1>20 DEF MountRefused
<1>21. ASSUME NEW f \in Fibers, Leases(f) PROVE Claimed'
  BY <1>21 DEF Leases
<1>22. ASSUME NEW f \in Fibers, LeaseRefused(f) PROVE Claimed'
  BY <1>22 DEF LeaseRefused
<1>23. ASSUME NEW f \in Fibers, Attaches(f) PROVE Claimed'
  BY <1>23 DEF Attaches
<1>24. ASSUME NEW f \in Fibers, AttachFails(f) PROVE Claimed'
  BY <1>24, <1>1 DEF AttachFails
<1>25. ASSUME NEW f \in Fibers, Mounted(f) PROVE Claimed'
  BY <1>25, <1>1 DEF Mounted
<1>26. ASSUME NEW f \in Fibers, Unmounts(f) PROVE Claimed'
  BY <1>26 DEF Unmounts
<1>27. ASSUME NEW f \in Fibers, Releases(f) PROVE Claimed'
  BY <1>27 DEF Releases
<1>28. ASSUME NEW f \in Fibers, Refreshes(f) PROVE Claimed'
  BY <1>28 DEF Refreshes
<1>29. ASSUME NEW f \in Fibers, Wakes(f) PROVE Claimed'
  BY <1>29 DEF Wakes
<1>30. ASSUME NEW f \in Fibers, Inspected(f) PROVE Claimed'
  BY <1>30 DEF Inspected
<1>31. ASSUME NEW f \in Fibers, Woken(f) PROVE Claimed'
  BY <1>31 DEF Woken
<1>32. ASSUME NEW f \in Fibers, UpdateObservation(f) PROVE Claimed'
  BY <1>32, <1>1 DEF UpdateObservation
<1>33. ASSUME NEW f \in Fibers, StopClaims(f) PROVE Claimed'
  BY <1>33, <1>1, <1>2 DEF StopClaims
<1>34. ASSUME NEW f \in Fibers, StopBegins(f) PROVE Claimed'
  BY <1>34 DEF StopBegins
<1>35. ASSUME NEW f \in Fibers, StopAnswers(f) PROVE Claimed'
  BY <1>35 DEF StopAnswers
<1>36. ASSUME NEW f \in Fibers, StopFails(f) PROVE Claimed'
  BY <1>36 DEF StopFails
<1>37. ASSUME NEW f \in Fibers, StopEnds(f) PROVE Claimed'
  BY <1>37 DEF StopEnds
<1>38. ASSUME NEW f \in Fibers, DestroyClaims(f) PROVE Claimed'
  BY <1>38, <1>1, <1>2 DEF DestroyClaims
<1>39. ASSUME NEW f \in Fibers, Destroys(f) PROVE Claimed'
  BY <1>39 DEF Destroys
<1>40. ASSUME NEW f \in Fibers, DestroyFails(f) PROVE Claimed'
  BY <1>40 DEF DestroyFails
<1>41. ASSUME NEW f \in Fibers, Tombstones(f) PROVE Claimed'
  BY <1>41 DEF Tombstones
<1>42. ASSUME NEW f \in Fibers, Cut(f) PROVE Claimed'
  BY <1>42, <1>1 DEF Cut
<1>43. ASSUME NEW f \in Fibers, StopIsCut(f) PROVE Claimed'
  BY <1>43 DEF StopIsCut
<1>44. CASE Drifts
  BY <1>44 DEF Drifts
<1>45. CASE Evicts
  BY <1>45 DEF Evicts
<1>46. CASE Crash
  BY <1>46 DEF Crash
<1>47. CASE UNCHANGED vars
  BY <1>47
<1>48. QED
  BY <1>11, <1>12, <1>13, <1>14, <1>15, <1>16, <1>17, <1>18, <1>19, <1>20,
     <1>21, <1>22, <1>23, <1>24, <1>25, <1>26, <1>27, <1>28, <1>29, <1>30,
     <1>31, <1>32, <1>33, <1>34, <1>35, <1>36, <1>37, <1>38, <1>39, <1>40,
     <1>41, <1>42, <1>43, <1>44, <1>45, <1>46, <1>47 DEF Next

(* What is suspended.                                                      *)
LEMMA KeptStep ==
  ASSUME TypeOK, Placed, Created, Kept, [Next]_vars
  PROVE  Kept'
<1> USE SandboxAssumption DEF TypeOK, Placed, Created, Kept, Creating,
        Knowing, Stops, Removals, row, memory, history, vars, Goto, Learns, Takes,
        Ends, After, Claims, Writes, Observes, Mountable, Stoppable, Answers
<1>1. Working = {f \in Fibers : pc[f] \in Works}
  BY WorkingPlaces
<1>11. ASSUME NEW f \in Fibers, Reserves(f) PROVE Kept'
  BY <1>11 DEF Reserves
<1>12. ASSUME NEW f \in Fibers, Creates(f) PROVE Kept'
  BY <1>12 DEF Creates
<1>13. ASSUME NEW f \in Fibers, CreateRefused(f) PROVE Kept'
  BY <1>13 DEF CreateRefused
<1>14. ASSUME NEW f \in Fibers, Provisions(f) PROVE Kept'
  BY <1>14 DEF Provisions
<1>15. ASSUME NEW f \in Fibers, ProvisionFails(f) PROVE Kept'
  BY <1>15 DEF ProvisionFails
<1>16. ASSUME NEW f \in Fibers, Finalizes(f) PROVE Kept'
  BY <1>16 DEF Finalizes
<1>17. ASSUME NEW f \in Fibers, FinalizeFails(f) PROVE Kept'
  BY <1>17 DEF FinalizeFails
<1>18. ASSUME NEW f \in Fibers, Registers(f) PROVE Kept'
  BY <1>18 DEF Registers
<1>19. ASSUME NEW f \in Fibers, Mounts(f) PROVE Kept'
  BY <1>19 DEF Mounts
<1>20. ASSUME NEW f \in Fibers, MountRefused(f) PROVE Kept'
  BY <1>20 DEF MountRefused
<1>21. ASSUME NEW f \in Fibers, Leases(f) PROVE Kept'
  BY <1>21 DEF Leases
<1>22. ASSUME NEW f \in Fibers, LeaseRefused(f) PROVE Kept'
  BY <1>22 DEF LeaseRefused
<1>23. ASSUME NEW f \in Fibers, Attaches(f) PROVE Kept'
  BY <1>23 DEF Attaches
<1>24. ASSUME NEW f \in Fibers, AttachFails(f) PROVE Kept'
  BY <1>24 DEF AttachFails
<1>25. ASSUME NEW f \in Fibers, Mounted(f) PROVE Kept'
  BY <1>25 DEF Mounted
<1>26. ASSUME NEW f \in Fibers, Unmounts(f) PROVE Kept'
  BY <1>26 DEF Unmounts
<1>27. ASSUME NEW f \in Fibers, Releases(f) PROVE Kept'
  BY <1>27 DEF Releases
<1>28. ASSUME NEW f \in Fibers, Refreshes(f) PROVE Kept'
  BY <1>28 DEF Refreshes
<1>29. ASSUME NEW f \in Fibers, Wakes(f) PROVE Kept'
  BY <1>29 DEF Wakes
<1>30. ASSUME NEW f \in Fibers, Inspected(f) PROVE Kept'
  BY <1>30 DEF Inspected
<1>31. ASSUME NEW f \in Fibers, Woken(f) PROVE Kept'
  BY <1>31 DEF Woken
<1>32. ASSUME NEW f \in Fibers, UpdateObservation(f) PROVE Kept'
  BY <1>32 DEF UpdateObservation
<1>33. ASSUME NEW f \in Fibers, StopClaims(f) PROVE Kept'
  BY <1>33 DEF StopClaims
<1>34. ASSUME NEW f \in Fibers, StopBegins(f) PROVE Kept'
  BY <1>34 DEF StopBegins
<1>35. ASSUME NEW f \in Fibers, StopAnswers(f) PROVE Kept'
  BY <1>35 DEF StopAnswers
<1>36. ASSUME NEW f \in Fibers, StopFails(f) PROVE Kept'
  BY <1>36 DEF StopFails
<1>37. ASSUME NEW f \in Fibers, StopEnds(f) PROVE Kept'
  BY <1>37 DEF StopEnds
<1>38. ASSUME NEW f \in Fibers, DestroyClaims(f) PROVE Kept'
  BY <1>38 DEF DestroyClaims
<1>39. ASSUME NEW f \in Fibers, Destroys(f) PROVE Kept'
  BY <1>39 DEF Destroys
<1>40. ASSUME NEW f \in Fibers, DestroyFails(f) PROVE Kept'
  BY <1>40 DEF DestroyFails
<1>41. ASSUME NEW f \in Fibers, Tombstones(f) PROVE Kept'
  BY <1>41 DEF Tombstones
<1>42. ASSUME NEW f \in Fibers, Cut(f) PROVE Kept'
  <2>1. SUFFICES ASSUME ~orphan', status \in {"suspending", "removing"}
                 PROVE  Kept'
    BY <1>42 DEF Cut
  <2>2. f \notin Working /\ ~orphan
    BY <1>42, <2>1 DEF Cut
  <2>3. \A g \in Fibers : pc[g] \in Works => pc'[g] = pc[g]
    BY <1>1, <1>42, <2>2 DEF Cut
  <2>4. QED
    BY <1>42, <2>2, <2>3 DEF Cut, Works
<1>43. ASSUME NEW f \in Fibers, StopIsCut(f) PROVE Kept'
  BY <1>43 DEF StopIsCut
<1>44. CASE Drifts
  BY <1>44 DEF Drifts
<1>45. CASE Evicts
  BY <1>45 DEF Evicts
<1>46. CASE Crash
  BY <1>46 DEF Crash
<1>47. CASE UNCHANGED vars
  BY <1>47
<1>48. QED
  BY <1>11, <1>12, <1>13, <1>14, <1>15, <1>16, <1>17, <1>18, <1>19, <1>20,
     <1>21, <1>22, <1>23, <1>24, <1>25, <1>26, <1>27, <1>28, <1>29, <1>30,
     <1>31, <1>32, <1>33, <1>34, <1>35, <1>36, <1>37, <1>38, <1>39, <1>40,
     <1>41, <1>42, <1>43, <1>44, <1>45, <1>46, <1>47 DEF Next

(* A lease is taken by who has none, and given back by who has it.         *)
LEMMA TakesOne ==
  ASSUME TypeOK, Placed, Counted, NEW f \in Fibers, NEW place, ~held[f],
         Takes(f, place)
  PROVE  Counted'
<1>1. IsFiniteSet(Holders) /\ f \notin Holders
  BY SandboxAssumption, FS_Subset DEF Holders
<1>2. Holders' = Holders \cup {f}
  BY DEF Takes, Holders, TypeOK
<1>3. Cardinality(Holders \cup {f}) = Cardinality(Holders) + 1
  BY <1>1, FS_AddElement
<1>4. QED
  BY <1>2, <1>3 DEF Takes, Counted

LEMMA GivesBackOne ==
  ASSUME TypeOK, Placed, Counted, NEW f \in Fibers, Releases(f)
  PROVE  Counted'
<1>1. IsFiniteSet(Holders) /\ f \in Holders
  BY SandboxAssumption, FS_Subset DEF Holders, Releases
<1>2. Holders' = Holders \ {f}
  BY DEF Releases, Holders, TypeOK
<1>3. /\ Cardinality(Holders \ {f}) = Cardinality(Holders) - 1
      /\ Cardinality(Holders) \in Nat /\ Holders # {}
  BY <1>1, FS_RemoveElement, FS_CardinalityType
<1>4. Cardinality(Holders) # 0
  BY <1>1, FS_EmptySet
<1>5. QED
  BY <1>2, <1>3, <1>4 DEF Releases, Counted, TypeOK

(* The references.                                                         *)
LEMMA RefsStep ==
  ASSUME TypeOK, Placed, Counted, [Next]_vars
  PROVE  Counted'
<1>1. ASSUME NEW f \in Fibers, Reserves(f) PROVE Counted'
  <2>1. ~held[f] /\ Takes(f, "reserved")
    BY <1>1 DEF Reserves, Placed, Leased, Creating, TypeOK
  <2>2. QED
    BY <2>1, TakesOne
<1>2. ASSUME NEW f \in Fibers, Leases(f) PROVE Counted'
  <2>1. ~held[f] /\ Takes(f, "attaching")
    BY <1>2 DEF Leases, Placed, Leased, Creating, TypeOK
  <2>2. QED
    BY <2>1, TakesOne
<1>3. ASSUME NEW f \in Fibers, Releases(f) PROVE Counted'
  BY <1>3, GivesBackOne
<1>4. CASE Crash
  <2>1. refs' = 0 /\ Holders' = {}
    BY <1>4 DEF Crash, Holders
  <2>2. QED
    BY <2>1, FS_EmptySet DEF Counted
<1>5. ASSUME UNCHANGED <<refs, held>> PROVE Counted'
  BY <1>5 DEF Counted, Holders
<1>6. ASSUME NEW f \in Fibers,
            Creates(f) \/ CreateRefused(f) \/ Provisions(f) \/
            ProvisionFails(f) \/ Finalizes(f)
      PROVE UNCHANGED <<refs, held>>
  BY <1>6 DEF Creates, CreateRefused, Provisions, ProvisionFails,
     Finalizes, memory, Goto, Learns, Ends
<1>7. ASSUME NEW f \in Fibers,
            FinalizeFails(f) \/ Registers(f) \/ Mounts(f) \/ MountRefused(f)
            \/ LeaseRefused(f)
      PROVE UNCHANGED <<refs, held>>
  BY <1>7 DEF FinalizeFails, Registers, Mounts, MountRefused,
     LeaseRefused, memory, Goto, Learns, Ends
<1>8. ASSUME NEW f \in Fibers,
            Attaches(f) \/ AttachFails(f) \/ Mounted(f) \/ Unmounts(f) \/
            Refreshes(f)
      PROVE UNCHANGED <<refs, held>>
  BY <1>8 DEF Attaches, AttachFails, Mounted, Unmounts, Refreshes, memory,
     Goto, Learns, Ends
<1>9. ASSUME NEW f \in Fibers,
            Wakes(f) \/ Inspected(f) \/ Woken(f) \/ UpdateObservation(f) \/
            StopClaims(f)
      PROVE UNCHANGED <<refs, held>>
  BY <1>9 DEF Wakes, Inspected, Woken, UpdateObservation, StopClaims,
     memory, Goto, Learns, Ends
<1>10. ASSUME NEW f \in Fibers,
            StopBegins(f) \/ StopAnswers(f) \/ StopFails(f) \/ StopEnds(f)
            \/ DestroyClaims(f)
      PROVE UNCHANGED <<refs, held>>
  BY <1>10 DEF StopBegins, StopAnswers, StopFails, StopEnds,
     DestroyClaims, memory, Goto, Learns, Ends
<1>11. ASSUME NEW f \in Fibers,
            Destroys(f) \/ DestroyFails(f) \/ Tombstones(f) \/ Cut(f) \/
            StopIsCut(f)
      PROVE UNCHANGED <<refs, held>>
  BY <1>11 DEF Destroys, DestroyFails, Tombstones, Cut, StopIsCut, memory,
     Goto, Learns, Ends
<1>12. ASSUME Drifts \/ Evicts \/ UNCHANGED vars PROVE UNCHANGED <<refs, held>>
  BY <1>12 DEF Drifts, Evicts, memory, vars
<1>13. QED
  BY <1>1, <1>2, <1>3, <1>4, <1>5, <1>6, <1>7, <1>8, <1>9, <1>10, <1>11,
     <1>12 DEF Next

-----------------------------------------------------------------------------
IInv == TypeOK /\ Placed /\ Created /\ Counted /\ Claimed /\ Kept

LEMMA InitIInv == Init => IInv
<1> SUFFICES ASSUME Init PROVE IInv
  OBVIOUS
<1>1. TypeOK
  <2>1. /\ refs \in Nat /\ crashes \in 0 .. MaxCrashes
        /\ status \in Statuses \cup {"absent"} /\ resource = "none"
    BY SandboxAssumption DEF Init
  <2>2. {config, managed, cached, observed, orphan} \subseteq BOOLEAN
    BY DEF Init
  <2>3. /\ pc \in [Fibers -> Places] /\ held \in [Fibers -> BOOLEAN]
        /\ seen \in [Fibers -> Statuses \cup {"none"}]
        /\ forced \in [Fibers -> BOOLEAN]
    BY DEF Init, Places
  <2>4. QED
    BY <2>1, <2>2, <2>3 DEF TypeOK
<1>2. Placed /\ Created /\ Claimed /\ Kept
  BY DEF Init, Placed, Created, Claimed, Kept, Leased, Creating, Knowing,
         Works, Stops
<1>3. Holders = {}
  BY DEF Init, Holders
<1>4. Counted
  BY <1>3, FS_EmptySet DEF Init, Counted
<1>5. QED
  BY <1>1, <1>2, <1>4 DEF IInv

LEMMA NextIInv == IInv /\ [Next]_vars => IInv'
BY TypeStep, PlacedStep, CreatedStep, RefsStep, ClaimedStep, KeptStep DEF IInv

LEMMA Invariance == Spec => []IInv
BY InitIInv, NextIInv, PTL DEF Spec

LEMMA Implied ==
  ASSUME IInv
  PROVE  RefsAreLeases /\ OneClaim /\ LeaseExcludesStop /\ ClaimIsWorkedOn
<1>1. /\ Working = {f \in Fibers : pc[f] \in Works}
      /\ Stopping = {f \in Fibers : pc[f] \in Stops}
      /\ Destroying = {f \in Fibers : pc[f] \in Removals}
  <2>1. TypeOK
    BY DEF IInv
  <2>2. QED
    BY <2>1, WorkingPlaces
<1>2. LeaseExcludesStop
  BY <1>1 DEF IInv, Claimed, LeaseExcludesStop, Users, Holders, At, Refusable
<1>3. ClaimIsWorkedOn
  BY <1>1 DEF IInv, Kept, ClaimIsWorkedOn
<1>4. ASSUME ~observed, NEW f \in Working PROVE
        /\ \A g \in Working : f = g
        /\ status = IF Stopping # {} THEN "suspending" ELSE "removing"
  BY <1>1, <1>4 DEF IInv, Claimed, Works
<1>5. OneClaim
  BY <1>3, <1>4 DEF OneClaim
<1>6. RefsAreLeases
  BY DEF IInv, Counted, Placed, RefsAreLeases, Holders
<1>7. QED
  BY <1>2, <1>3, <1>5, <1>6

(* The row, the references and the fibers stay in their types.             *)
THEOREM TypeCorrect == Spec => []TypeOK
<1>1. IInv => TypeOK
  BY DEF IInv
<1>2. QED
  BY <1>1, Invariance, PTL

(* The references are the leases held, and whoever holds one is on the way *)
(* to give it back, whatever is refused or cut off (control.ts:206-238,    *)
(* 636-662, 970-983).                                                      *)
THEOREM References == Spec => []RefsAreLeases
BY Implied, Invariance, PTL

(* Nobody uses a sandbox that is being stopped or removed, unless an       *)
(* observation went over the claim (control.ts:636-658, 802-900).          *)
THEOREM LeasesExcludeStops == Spec => []LeaseExcludesStop
BY Implied, Invariance, PTL

(* Stops and removals of a sandbox exclude one another (control.ts:802-829,*)
(* 878-900), with the same exception, and a claim has one at work unless   *)
(* it is known to be nobody's (control.ts:831-866).                        *)
THEOREM ClaimsExclude == Spec => []OneClaim
BY Implied, Invariance, PTL
=============================================================================
