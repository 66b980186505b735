--------------------------- MODULE ResourcesProofs ---------------------------
(***************************************************************************)
(* Proofs about Resources: reference counts are exact, a resource is live  *)
(* just as long as something refers to it, buffers reach the controllers   *)
(* they are made for, the cache of saved processes is a function, and      *)
(* final_check finds that nothing leaks.                                   *)
(***************************************************************************)
EXTENDS Resources, FiniteSetTheorems, TLAPS

(* The parts of the inductive invariant. *)

\* add_not_used_resource is called when, and only when, a count gets to zero.
LiveIsCounted == \A r \in Resources : stage[r] = "live" <=> count[r] > 0

\* remaining_controllers counts the lists that the buffer is in.
RemainingIsExact ==
  \A b \in Buffers : remaining[b] = Cardinality(Waiting(b, Controllers))

\* A send that has not been matched has no receive, and a rendezvous send is not
\* finished before: Match adds references that the global state does not have.
UnmatchedIsNotReceived ==
  \A g \in GStates, b \in Buffers :
    Holds(g, b, "active") =>
      /\ ~Holds(g, b, "received")
      /\ b \in rendezvous => ~Holds(g, b, "sent")

NewIsNotRendezvous == \A b \in Buffers : stage[b] = "new" => b \notin rendezvous

\* A process is in its client or saved, and a global state saves it once.
SavedIsNotRunning ==
  /\ current = NoGState => running = {}
  /\ current \in GStates =>
       \A s \in VgStates : Holds(current, s, "process") => ControllerOf[s] \notin running

OneStatePerProcess ==
  \A g \in GStates : \A s, t \in VgStates :
    Holds(g, s, "process") /\ Holds(g, t, "process") /\ ControllerOf[s] = ControllerOf[t]
    => s = t

IInv ==
  /\ TypeOK
  /\ CountsAreExact
  /\ LiveIsCounted
  /\ RemainingIsExact
  /\ UnmatchedIsNotReceived
  /\ NewIsNotRendezvous
  /\ SavedIsNotRunning
  /\ OneStatePerProcess

-----------------------------------------------------------------------------
(* Cardinalities *)

\* What is counted are subsets of finite sets.
LEMMA RolesAreFinite == IsFiniteSet(Roles)
<1>1. IsFiniteSet({}) /\ Roles = (((({} \cup {"active"}) \cup {"sent"}) \cup {"received"})
                                   \cup {"operation"}) \cup {"process"}
  BY FS_EmptySet DEF Roles
<1> QED BY <1>1, FS_AddElement

LEMMA HoldersAreFinite ==
  ASSUME NEW S \in SUBSET (GStates \X Roles)
  PROVE  IsFiniteSet(S) /\ Cardinality(S) \in Nat
BY RolesAreFinite, ResourceAssumption, FS_Product, FS_Subset, FS_CardinalityType

LEMMA ControllersAreFinite ==
  ASSUME NEW S \in SUBSET Controllers
  PROVE  /\ IsFiniteSet(S) /\ Cardinality(S) \in Nat
         /\ Cardinality(S) = 0 <=> S = {}
BY ResourceAssumption, FS_Subset, FS_CardinalityType, FS_EmptySet

LEMMA ResourcesAreFinite ==
  ASSUME NEW S \in SUBSET Resources
  PROVE  Cardinality(S) \in Nat
BY ResourceAssumption, FS_Subset, FS_CardinalityType

LEMMA ReferencesAreNumbers ==
  ASSUME NEW g \in GStates
  PROVE  References(g) \in [Resources -> Nat]
<1>1. ASSUME NEW r \in Resources PROVE Cardinality(RolesOf(g, r)) \in Nat
  <2>1. RolesOf(g, r) \in SUBSET Roles
    BY DEF RolesOf
  <2> QED BY <2>1, RolesAreFinite, FS_Subset, FS_CardinalityType
<1> QED BY <1>1 DEF References

\* A resource without references is held by nothing and waits for no client.
LEMMA ZeroMeansFree ==
  ASSUME TypeOK, CountsAreExact, NEW r \in Resources
  PROVE  /\ count[r] >= 0
         /\ Cardinality(Holders(r)) \in Nat
         /\ count[r] > 0 <=> Holders(r) # {} \/ Pending(r) = 1
<1>1. /\ IsFiniteSet(Holders(r)) /\ Cardinality(Holders(r)) \in Nat
      /\ Cardinality(Holders(r)) = 0 <=> Holders(r) = {}
  BY HoldersAreFinite, FS_EmptySet DEF Holders
<1>2. Pending(r) \in {0, 1}
  BY DEF Pending
<1>3. count[r] = Cardinality(Holders(r)) + Pending(r)
  BY DEF CountsAreExact
<1> QED BY <1>1, <1>2, <1>3

\* Before a resource is allocated, nothing refers to it.
LEMMA NewIsFree ==
  ASSUME IInv, NEW r \in Resources, stage[r] = "new"
  PROVE  Holders(r) = {} /\ Pending(r) = 0
<1>1. ~(count[r] > 0)
  BY DEF IInv, LiveIsCounted
<1>2. Pending(r) \in {0, 1}
  BY DEF Pending
<1> QED BY <1>1, <1>2, ZeroMeansFree DEF IInv

-----------------------------------------------------------------------------
(* dec_ref and write_data *)

LEMMA ReleaseKeeps ==
  ASSUME TypeOK, LiveIsCounted, NEW drop \in [Resources -> Nat], Release(drop)
  PROVE  /\ stage' \in [Resources -> {"new", "live", "unused", "freed"}]
         /\ count' \in [Resources -> Int]
         /\ total' \in [Managers -> Int]
         /\ LiveIsCounted'
         /\ \A r \in Resources : stage'[r] = "new" => stage[r] = "new"
<1>1. count' \in [Resources -> Int]
  BY DEF Release, TypeOK
<1>2. stage' \in [Resources -> {"new", "live", "unused", "freed"}]
  BY DEF Release, TypeOK
<1>3. ASSUME NEW m \in Managers
      PROVE  Cardinality({r \in Dropped(drop) : Manager(r) = m}) \in Nat
  <2>1. {r \in Dropped(drop) : Manager(r) = m} \in SUBSET Resources
    BY DEF Dropped
  <2> QED BY <2>1, ResourcesAreFinite
<1>4. total' \in [Managers -> Int]
  BY <1>3 DEF Release, TypeOK
<1>5. ASSUME NEW r \in Resources
      PROVE  stage'[r] = "live" <=> count'[r] > 0
  <2>1. /\ count'[r] = count[r] - drop[r] /\ count[r] \in Int /\ drop[r] \in Nat
        /\ stage'[r] = IF r \in Dropped(drop) THEN "unused" ELSE stage[r]
        /\ stage[r] = "live" <=> count[r] > 0
    BY DEF Release, TypeOK, LiveIsCounted
  <2>2. r \in Dropped(drop) <=> drop[r] > 0 /\ count[r] - drop[r] < 1
    BY DEF Dropped
  <2> QED BY <2>1, <2>2
<1>6. \A r \in Resources : stage'[r] = "new" => stage[r] = "new"
  BY DEF Release
<1> QED BY <1>1, <1>2, <1>4, <1>5, <1>6 DEF LiveIsCounted

LEMMA OnceIsNumber == \A S : Once(S) \in [Resources -> Nat]
BY DEF Once

LEMMA WriteKeeps ==
  ASSUME TypeOK, RemainingIsExact, NEW C \in SUBSET Controllers, WriteBuffers(C)
  PROVE  /\ remaining' \in [Buffers -> Int]
         /\ toMake' \in [Controllers -> SUBSET Buffers]
         /\ written' \in [Buffers -> SUBSET Controllers]
         /\ RemainingIsExact'
         /\ \A r \in Resources : Pending(r)' = Pending(r) - Once(Completed(C))[r]
<1>1. toMake' \in [Controllers -> SUBSET Buffers]
  BY DEF WriteBuffers, TypeOK
<1>2. written' \in [Buffers -> SUBSET Controllers]
  BY DEF WriteBuffers, TypeOK, Waiting
<1>3. ASSUME NEW b \in Buffers
      PROVE  /\ remaining[b] = Cardinality(Waiting(b, Controllers))
             /\ Waiting(b, Controllers)' = Waiting(b, Controllers) \ Waiting(b, C)
             /\ Cardinality(Waiting(b, C)) \in Nat
             /\ Cardinality(Waiting(b, Controllers)) \in Nat
             /\ remaining'[b] = remaining[b] - Cardinality(Waiting(b, C))
             /\ remaining'[b] = Cardinality(Waiting(b, Controllers)')
             /\ remaining'[b] = 0 <=> Waiting(b, Controllers)' = {}
  <2>1. remaining[b] = Cardinality(Waiting(b, Controllers))
    BY DEF RemainingIsExact
  <2>2. Waiting(b, Controllers)' = Waiting(b, Controllers) \ Waiting(b, C)
    BY DEF WriteBuffers, TypeOK, Waiting
  <2>3. Waiting(b, C) \in SUBSET Controllers /\ Waiting(b, Controllers) \in SUBSET Controllers
    BY DEF Waiting
  <2>4. Waiting(b, Controllers) \cap Waiting(b, C) = Waiting(b, C)
    BY DEF Waiting
  <2>5. Cardinality(Waiting(b, Controllers)') =
          Cardinality(Waiting(b, Controllers)) - Cardinality(Waiting(b, C))
    BY <2>2, <2>3, <2>4, ControllersAreFinite, FS_Difference
  <2>6. remaining'[b] = remaining[b] - Cardinality(Waiting(b, C))
    BY DEF WriteBuffers
  <2>7. Waiting(b, Controllers)' \in SUBSET Controllers
    BY <2>2, <2>3
  <2> QED BY <2>1, <2>2, <2>3, <2>5, <2>6, <2>7, ControllersAreFinite
<1>4. remaining' \in [Buffers -> Int]
  BY <1>3 DEF WriteBuffers
<1>5. RemainingIsExact'
  BY <1>3 DEF RemainingIsExact
<1>6. ASSUME NEW r \in Resources
      PROVE  Pending(r)' = Pending(r) - Once(Completed(C))[r]
  <2>1. CASE r \in Buffers
    <3>1. Waiting(r, C) \in SUBSET Controllers
      BY DEF Waiting
    <3>2. r \in Completed(C) <=> Waiting(r, C) # {} /\ Waiting(r, Controllers)' = {}
      BY <2>1, <1>3, <3>1, ControllersAreFinite DEF Completed
    <3>3. Waiting(r, C) \subseteq Waiting(r, Controllers)
      BY DEF Waiting
    <3>4. Once(Completed(C))[r] = IF r \in Completed(C) THEN 1 ELSE 0
      BY DEF Once
    <3>5. /\ Pending(r) = IF Waiting(r, Controllers) # {} THEN 1 ELSE 0
          /\ Pending(r)' = IF Waiting(r, Controllers)' # {} THEN 1 ELSE 0
      BY <2>1 DEF Pending
    <3>6. Waiting(r, Controllers)' = Waiting(r, Controllers) \ Waiting(r, C)
      BY <1>3, <2>1
    <3> QED BY <3>2, <3>3, <3>4, <3>5, <3>6
  <2>2. CASE r \notin Buffers
    BY <2>2 DEF Pending, Once, Completed
  <2> QED BY <2>1, <2>2
<1> QED BY <1>1, <1>2, <1>4, <1>5, <1>6

-----------------------------------------------------------------------------
(* What a step does to the references of global states *)

LEMMA RemoveReference ==
  ASSUME TypeOK, current \in GStates, NEW r \in Resources, NEW role \in Roles,
         Holds(current, r, role),
         held' = [held EXCEPT ![current] = @ \ {<<r, role>>}]
  PROVE  /\ held' \in [GStates -> SUBSET (Resources \X Roles)]
         /\ \A g \in GStates : held'[g] \subseteq held[g]
         /\ \A q \in Resources :
              Cardinality(Holders(q)') = Cardinality(Holders(q)) - Once({r})[q]
<1>1. held' \in [GStates -> SUBSET (Resources \X Roles)]
  BY DEF TypeOK
<1>2. \A g \in GStates : held'[g] \subseteq held[g]
  BY DEF TypeOK
<1>3. ASSUME NEW q \in Resources
      PROVE  Cardinality(Holders(q)') = Cardinality(Holders(q)) - Once({r})[q]
  <2>1. IsFiniteSet(Holders(q)) /\ Cardinality(Holders(q)) \in Nat
    BY HoldersAreFinite DEF Holders
  <2>2. CASE q = r
    <3>1. Holders(q)' = Holders(q) \ {<<current, role>>}
      BY <2>2 DEF Holders, Holds, TypeOK
    <3>2. <<current, role>> \in Holders(q)
      BY <2>2 DEF Holders
    <3>3. Cardinality(Holders(q) \ {<<current, role>>}) = Cardinality(Holders(q)) - 1
      BY <3>2, <2>1, FS_RemoveElement
    <3>4. Once({r})[q] = 1
      BY <2>2 DEF Once
    <3> QED BY <3>1, <3>3, <3>4
  <2>3. CASE q # r
    <3>1. Holders(q)' = Holders(q)
      BY <2>3 DEF Holders, Holds, TypeOK
    <3> QED BY <3>1, <2>1, <2>3 DEF Once
  <2> QED BY <2>2, <2>3
<1> QED BY <1>1, <1>2, <1>3

LEMMA AddReference ==
  ASSUME TypeOK, current \in GStates, NEW r \in Resources, NEW role \in Roles,
         ~Holds(current, r, role),
         held' = [held EXCEPT ![current] = @ \cup {<<r, role>>}]
  PROVE  /\ held' \in [GStates -> SUBSET (Resources \X Roles)]
         /\ \A q \in Resources :
              Cardinality(Holders(q)') = Cardinality(Holders(q)) + Once({r})[q]
<1>1. held' \in [GStates -> SUBSET (Resources \X Roles)]
  BY DEF TypeOK
<1>2. ASSUME NEW q \in Resources
      PROVE  Cardinality(Holders(q)') = Cardinality(Holders(q)) + Once({r})[q]
  <2>1. IsFiniteSet(Holders(q)) /\ Cardinality(Holders(q)) \in Nat
    BY HoldersAreFinite DEF Holders
  <2>2. CASE q = r
    <3>1. Holders(q)' = Holders(q) \cup {<<current, role>>}
      BY <2>2 DEF Holders, Holds, TypeOK
    <3>2. <<current, role>> \notin Holders(q)
      BY <2>2 DEF Holders
    <3>3. Cardinality(Holders(q) \cup {<<current, role>>}) = Cardinality(Holders(q)) + 1
      BY <3>2, <2>1, FS_AddElement
    <3>4. Once({r})[q] = 1
      BY <2>2 DEF Once
    <3> QED BY <3>1, <3>3, <3>4
  <2>3. CASE q # r
    <3>1. Holders(q)' = Holders(q)
      BY <2>3 DEF Holders, Holds, TypeOK
    <3> QED BY <3>1, <2>1, <2>3 DEF Once
  <2> QED BY <2>2, <2>3
<1> QED BY <1>1, <1>2

\* Giving up references disturbs none of the invariants on who holds what.
LEMMA ShrinkKeeps ==
  ASSUME UnmatchedIsNotReceived, SavedIsNotRunning, OneStatePerProcess,
         \A g \in GStates : held'[g] \subseteq held[g],
         UNCHANGED <<rendezvous, current>>
  PROVE  /\ UnmatchedIsNotReceived' /\ OneStatePerProcess'
         /\ UNCHANGED running => SavedIsNotRunning'
<1>1. UnmatchedIsNotReceived'
  BY DEF UnmatchedIsNotReceived, Holds
<1>2. UNCHANGED running => SavedIsNotRunning'
  BY DEF SavedIsNotRunning, Holds
<1>3. OneStatePerProcess'
  BY DEF OneStatePerProcess, Holds
<1> QED BY <1>1, <1>2, <1>3

\* If no buffer is created or written, these stay as they are.
LEMMA SameBuffers ==
  ASSUME RemainingIsExact, UNCHANGED <<remaining, toMake>>
  PROVE  RemainingIsExact' /\ \A r \in Resources : Pending(r)' = Pending(r)
BY DEF RemainingIsExact, Pending, Waiting

-----------------------------------------------------------------------------
(* Initial states *)

LEMMA InitInv == Init => IInv
<1> SUFFICES ASSUME Init PROVE IInv
  OBVIOUS
<1>1. TypeOK
  <2>1. /\ stage \in [Resources -> {"new", "live", "unused", "freed"}]
        /\ count \in [Resources -> Int]
        /\ total \in [Managers -> Int]
        /\ hash \in [VgStates -> Hashes \cup {NoHash}]
    BY DEF Init
  <2>2. /\ targets \in [Buffers -> SUBSET Controllers]
        /\ remaining \in [Buffers -> Int]
        /\ toMake \in [Controllers -> SUBSET Buffers]
        /\ written \in [Buffers -> SUBSET Controllers]
        /\ rendezvous \subseteq Buffers
    BY DEF Init
  <2>3. held \in [GStates -> SUBSET (Resources \X Roles)]
    BY DEF Init
  <2> QED BY <2>1, <2>2, <2>3, ResourceAssumption DEF Init, TypeOK
<1>2. ASSUME NEW r \in Resources
      PROVE  Holders(r) = {} /\ Pending(r) = 0 /\ Waiting(r, Controllers) = {}
  BY DEF Init, Holders, Holds, Pending, Waiting
<1>3. CountsAreExact
  <2>1. ASSUME NEW r \in Resources PROVE count[r] = 0 /\ Cardinality(Holders(r)) = 0
    BY <1>2, FS_EmptySet DEF Init
  <2> QED BY <2>1, <1>2 DEF CountsAreExact
<1>4. LiveIsCounted
  BY DEF Init, LiveIsCounted
<1>5. RemainingIsExact
  BY <1>2, FS_EmptySet DEF Init, RemainingIsExact, Resources
<1>6. /\ UnmatchedIsNotReceived /\ NewIsNotRendezvous
      /\ SavedIsNotRunning /\ OneStatePerProcess
  BY ResourceAssumption DEF Init, UnmatchedIsNotReceived, NewIsNotRendezvous,
                            SavedIsNotRunning, OneStatePerProcess, Holds
<1> QED BY <1>1, <1>3, <1>4, <1>5, <1>6 DEF IInv

-----------------------------------------------------------------------------
(* Buffers *)

LEMMA NewBufferInv ==
  ASSUME IInv, NEW b \in Buffers, NEW C \in SUBSET Controllers, C # {},
         NEW roles \in {{"active"}, {"active", "sent"}, {"operation"}},
         NEW isRendezvous \in BOOLEAN,
         isRendezvous => roles = {"active"},
         NewBuffer(b, C, roles, isRendezvous)
  PROVE  IInv'
<1>a. TypeOK /\ b \in Resources /\ current \in GStates /\ "buffers" \in Managers
  BY DEF IInv, Resources, NewBuffer, Managers
<1>1. Cardinality(roles) \in Nat /\ IsFiniteSet(roles) /\ roles \subseteq Roles
  <2>1. roles \in SUBSET Roles
    BY DEF Roles
  <2> QED BY <2>1, RolesAreFinite, FS_Subset, FS_CardinalityType
<1>2. Cardinality(C) \in Nat
  BY ControllersAreFinite
<1>3. Holders(b) = {} /\ Pending(b) = 0 /\ Waiting(b, Controllers) = {}
  <2>1. Holders(b) = {} /\ Pending(b) = 0
    BY <1>a, NewIsFree DEF NewBuffer
  <2> QED BY <2>1 DEF Pending
<1>4. held' \in [GStates -> SUBSET (Resources \X Roles)]
  BY <1>a, <1>1 DEF NewBuffer, TypeOK
<1>5. TypeOK'
  <2>1. /\ stage' \in [Resources -> {"new", "live", "unused", "freed"}]
        /\ count' \in [Resources -> Int]
        /\ total' \in [Managers -> Int]
    BY <1>a, <1>1 DEF NewBuffer, TypeOK
  <2>2. /\ targets' \in [Buffers -> SUBSET Controllers]
        /\ remaining' \in [Buffers -> Int]
        /\ toMake' \in [Controllers -> SUBSET Buffers]
        /\ rendezvous' \subseteq Buffers
    BY <1>a, <1>2 DEF NewBuffer, TypeOK
  <2> QED BY <2>1, <2>2, <1>4, <1>a DEF NewBuffer, TypeOK
<1>6. Waiting(b, Controllers)' = C
  BY <1>3, <1>a DEF NewBuffer, Waiting, TypeOK
<1>7. \A q \in Buffers : q # b => Waiting(q, Controllers)' = Waiting(q, Controllers)
  BY <1>a DEF NewBuffer, Waiting, TypeOK
<1>8. RemainingIsExact'
  BY <1>6, <1>7, <1>a DEF NewBuffer, RemainingIsExact, IInv, TypeOK
<1>9. ASSUME NEW q \in Resources, q # b
      PROVE  Holders(q)' = Holders(q) /\ Pending(q)' = Pending(q)
  BY <1>7, <1>9, <1>a DEF NewBuffer, Holders, Holds, Pending, TypeOK
<1>10. Holders(b)' = {current} \X roles
  BY <1>3, <1>a, <1>1 DEF NewBuffer, Holders, Holds, TypeOK
<1>11. Cardinality(Holders(b)') = Cardinality(roles)
  <2>1. IsFiniteSet({current}) /\ Cardinality({current}) = 1
    BY FS_Singleton
  <2>2. Cardinality({current} \X roles) = 1 * Cardinality(roles)
    BY <2>1, <1>1, FS_Product
  <2> QED BY <2>2, <1>10, <1>1
<1>12. Pending(b)' = 1
  BY <1>6 DEF Pending
<1>13. CountsAreExact'
  <2> SUFFICES ASSUME NEW q \in Resources
               PROVE  count'[q] = Cardinality(Holders(q)') + Pending(q)'
    BY DEF CountsAreExact
  <2>1. CASE q = b
    BY <2>1, <1>11, <1>12, <1>a DEF NewBuffer, TypeOK
  <2>2. CASE q # b
    BY <2>2, <1>9, <1>a DEF NewBuffer, IInv, CountsAreExact, TypeOK
  <2> QED BY <2>1, <2>2
<1>14. LiveIsCounted'
  BY <1>1, <1>a DEF NewBuffer, IInv, LiveIsCounted, TypeOK
<1>15. ASSUME NEW g \in GStates, NEW q \in Resources, NEW role \in Roles
       PROVE  Holds(g, q, role)' <=>
                Holds(g, q, role) \/ (g = current /\ q = b /\ role \in roles)
  BY <1>a DEF NewBuffer, Holds, TypeOK
<1>16. ASSUME NEW g \in GStates, NEW role \in Roles PROVE ~Holds(g, b, role)
  <2>1. <<g, role>> \in GStates \X Roles /\ <<g, role>> \notin Holders(b)
    BY <1>3
  <2> QED BY <2>1 DEF Holders
<1>17. UnmatchedIsNotReceived'
  <2> SUFFICES ASSUME NEW g \in GStates, NEW q \in Buffers, Holds(g, q, "active")'
               PROVE  /\ ~Holds(g, q, "received")'
                      /\ q \in rendezvous' => ~Holds(g, q, "sent")'
    BY DEF UnmatchedIsNotReceived
  <2>1. {"active", "received", "sent"} \subseteq Roles /\ q \in Resources
    BY DEF Roles, Resources
  <2>2. "received" \notin roles /\ (isRendezvous => "sent" \notin roles)
    OBVIOUS
  <2>3. rendezvous' = IF isRendezvous THEN rendezvous \cup {b} ELSE rendezvous
    BY DEF NewBuffer
  <2>4. CASE q = b
    <3>1. ~Holds(g, b, "active") /\ ~Holds(g, b, "received") /\ ~Holds(g, b, "sent")
      BY <1>16, <2>1
    <3>2. ~Holds(g, b, "received")'
      BY <3>1, <2>1, <2>2, <2>4, <1>15
    <3>3. g = current /\ "active" \in roles
      BY <3>1, <2>1, <2>4, <1>15
    <3>4. b \notin rendezvous
      BY DEF NewBuffer, NewIsNotRendezvous, IInv
    <3>5. b \in rendezvous' => isRendezvous
      BY <3>4, <2>3
    <3>6. "sent" \notin roles => ~Holds(g, b, "sent")'
      BY <3>1, <2>1, <1>15, <1>a
    <3> QED BY <3>2, <3>5, <3>6, <2>2, <2>4
  <2>5. CASE q # b
    BY <2>1, <2>3, <2>5, <1>15 DEF UnmatchedIsNotReceived, IInv
  <2> QED BY <2>4, <2>5
<1>18. SavedIsNotRunning' /\ OneStatePerProcess'
  <2>1. ASSUME NEW g \in GStates, NEW s \in VgStates
        PROVE  Holds(g, s, "process")' <=> Holds(g, s, "process")
    BY <1>15 DEF Roles, Resources
  <2> QED BY <2>1 DEF NewBuffer, IInv, SavedIsNotRunning, OneStatePerProcess
<1>19. NewIsNotRendezvous'
  BY <1>a DEF NewBuffer, NewIsNotRendezvous, IInv, TypeOK, Resources
<1> QED BY <1>5, <1>8, <1>13, <1>14, <1>17, <1>18, <1>19 DEF IInv

LEMMA MatchInv ==
  ASSUME IInv, NEW b \in Buffers, Match(b)
  PROVE  IInv'
<1> DEFINE new == IF b \in rendezvous THEN {"sent", "received"} ELSE {"received"}
           more == IF b \in rendezvous THEN 1 ELSE 0
<1>a. TypeOK /\ b \in Resources /\ current \in GStates /\ Holds(current, b, "active")
  BY DEF IInv, Resources, Match
<1>b. {"active", "sent", "received"} \subseteq Roles /\ new \subseteq Roles
  BY DEF Roles
<1>c. /\ held' = [held EXCEPT ![current] = (@ \ {<<b, "active">>}) \cup ({b} \X new)]
      /\ UNCHANGED <<stage, total, hash, bufferVars, current, running, checked>>
  BY DEF Match
<1>1. count' = [count EXCEPT ![b] = @ + more]
  <2>1. count[b] \in Int
    BY <1>a DEF TypeOK
  <2>2. count[b] + more = IF b \in rendezvous THEN count[b] + 1 ELSE (count[b] + 1) - 1
    BY <2>1
  <2>3. count' = [count EXCEPT ![b] = IF b \in rendezvous THEN @ + 1 ELSE (@ + 1) - 1]
    BY DEF Match
  <2> QED BY <2>2, <2>3
<1>2. TypeOK'
  <2>1. held' \in [GStates -> SUBSET (Resources \X Roles)]
    BY <1>a, <1>b, <1>c DEF TypeOK
  <2>2. count' \in [Resources -> Int]
    BY <1>1, <1>a DEF TypeOK
  <2> QED BY <2>1, <2>2, <1>a, <1>c DEF TypeOK, bufferVars
<1>3. RemainingIsExact' /\ \A r \in Resources : Pending(r)' = Pending(r)
  BY <1>c, SameBuffers DEF IInv, bufferVars
<1>4. ASSUME NEW g \in GStates, NEW q \in Resources, NEW role \in Roles
      PROVE  Holds(g, q, role)' <=>
               IF g = current /\ q = b
               THEN role \in new \/ (role # "active" /\ Holds(g, q, role))
               ELSE Holds(g, q, role)
  BY <1>a, <1>c DEF Holds, TypeOK
<1>5. CountsAreExact'
  <2> SUFFICES ASSUME NEW q \in Resources
               PROVE  count'[q] = Cardinality(Holders(q)') + Pending(q)'
    BY DEF CountsAreExact
  <2>1. IsFiniteSet(Holders(q)) /\ Cardinality(Holders(q)) \in Nat
    BY HoldersAreFinite DEF Holders
  <2>2. count[q] = Cardinality(Holders(q)) + Pending(q) /\ count[q] \in Int
    BY <1>a DEF IInv, CountsAreExact, TypeOK
  <2>3. CASE q = b
    <3> DEFINE rest == Holders(q) \ {<<current, "active">>}
    <3>1. <<current, "active">> \in Holders(q)
      BY <1>a, <1>b, <2>3 DEF Holders
    <3>2. IsFiniteSet(rest) /\ Cardinality(rest) = Cardinality(Holders(q)) - 1
      BY <3>1, <2>1, FS_RemoveElement
    <3>3. /\ <<current, "received">> \notin rest
          /\ b \in rendezvous => <<current, "sent">> \notin rest
      BY <1>a, <1>b, <2>3 DEF IInv, UnmatchedIsNotReceived, Holders
    <3>4. Holders(q)' = rest \cup ({current} \X new)
      BY <1>a, <1>b, <1>c, <2>3 DEF Holders, Holds, TypeOK
    <3>5. Cardinality(Holders(q)') = Cardinality(Holders(q)) + more
      <4>1. CASE b \in rendezvous
        <5>1. Holders(q)' = (rest \cup {<<current, "sent">>}) \cup {<<current, "received">>}
          BY <3>4, <4>1
        <5>2. /\ IsFiniteSet(rest \cup {<<current, "sent">>})
              /\ Cardinality(rest \cup {<<current, "sent">>}) = Cardinality(rest) + 1
          BY <3>2, <3>3, <4>1, FS_AddElement
        <5>3. <<current, "received">> \notin rest \cup {<<current, "sent">>}
          BY <3>3
        <5>4. Cardinality((rest \cup {<<current, "sent">>}) \cup {<<current, "received">>})
                = Cardinality(rest \cup {<<current, "sent">>}) + 1
          BY <5>2, <5>3, FS_AddElement
        <5> QED BY <5>1, <5>2, <5>4, <3>2, <2>1, <4>1
      <4>2. CASE b \notin rendezvous
        <5>1. Holders(q)' = rest \cup {<<current, "received">>}
          BY <3>4, <4>2
        <5>2. Cardinality(Holders(q)') = Cardinality(rest) + 1
          BY <5>1, <3>2, <3>3, FS_AddElement
        <5> QED BY <5>2, <3>2, <2>1, <4>2
      <4> QED BY <4>1, <4>2
    <3>6. count'[q] = count[q] + more
      BY <1>1, <1>a, <2>3 DEF TypeOK
    <3>7. Pending(q) \in {0, 1}
      BY DEF Pending
    <3> QED BY <3>5, <3>6, <3>7, <2>1, <2>2, <1>3
  <2>4. CASE q # b
    <3>1. Holders(q)' = Holders(q)
      BY <1>4, <2>4 DEF Holders
    <3>2. count'[q] = count[q]
      BY <1>1, <1>a, <2>4 DEF TypeOK
    <3> QED BY <3>1, <3>2, <2>2, <1>3
  <2> QED BY <2>3, <2>4
<1>6. LiveIsCounted'
  <2>1. count[b] > 0
    <3>1. <<current, "active">> \in Holders(b)
      BY <1>a, <1>b DEF Holders
    <3> QED BY <3>1, <1>a, ZeroMeansFree DEF IInv
  <2> QED BY <2>1, <1>1, <1>a, <1>c DEF IInv, LiveIsCounted, TypeOK
<1>7. UnmatchedIsNotReceived'
  <2> SUFFICES ASSUME NEW g \in GStates, NEW q \in Buffers, Holds(g, q, "active")'
               PROVE  /\ ~Holds(g, q, "received")'
                      /\ q \in rendezvous => ~Holds(g, q, "sent")'
    BY <1>c DEF UnmatchedIsNotReceived, bufferVars
  <2>1. q \in Resources
    BY DEF Resources
  <2>2. ~(g = current /\ q = b) /\ Holds(g, q, "active")
    BY <1>4, <1>b, <2>1
  <2> QED BY <2>1, <2>2, <1>4, <1>b DEF IInv, UnmatchedIsNotReceived
<1>8. SavedIsNotRunning' /\ OneStatePerProcess' /\ NewIsNotRendezvous'
  <2>1. ASSUME NEW g \in GStates, NEW s \in VgStates
        PROVE  Holds(g, s, "process")' <=> Holds(g, s, "process")
    <3>1. s \in Resources /\ s # b /\ "process" \in Roles
      BY ResourceAssumption DEF Roles, Resources
    <3> QED BY <3>1, <1>4
  <2> QED BY <2>1, <1>c DEF IInv, SavedIsNotRunning, OneStatePerProcess,
                            NewIsNotRendezvous, bufferVars
<1> QED BY <1>2, <1>3, <1>5, <1>6, <1>7, <1>8 DEF IInv

\* Giving up one reference of the current global state.
LEMMA DropReference ==
  ASSUME IInv, current \in GStates, NEW r \in Resources, NEW role \in Roles,
         Holds(current, r, role),
         Release(Once({r})),
         held' = [held EXCEPT ![current] = @ \ {<<r, role>>}],
         running' \in SUBSET Controllers,
         UNCHANGED <<hash, bufferVars, current, checked>>
  PROVE  /\ TypeOK' /\ CountsAreExact' /\ LiveIsCounted' /\ RemainingIsExact'
         /\ UnmatchedIsNotReceived' /\ NewIsNotRendezvous' /\ OneStatePerProcess'
         /\ UNCHANGED running => SavedIsNotRunning'
<1>1. /\ stage' \in [Resources -> {"new", "live", "unused", "freed"}]
      /\ count' \in [Resources -> Int]
      /\ total' \in [Managers -> Int]
      /\ LiveIsCounted'
      /\ \A q \in Resources : stage'[q] = "new" => stage[q] = "new"
  BY ReleaseKeeps, OnceIsNumber DEF IInv
<1>2. /\ held' \in [GStates -> SUBSET (Resources \X Roles)]
      /\ \A g \in GStates : held'[g] \subseteq held[g]
      /\ \A q \in Resources :
           Cardinality(Holders(q)') = Cardinality(Holders(q)) - Once({r})[q]
  BY RemoveReference DEF IInv
<1>3. RemainingIsExact' /\ \A q \in Resources : Pending(q)' = Pending(q)
  BY SameBuffers DEF IInv, bufferVars
<1>4. TypeOK'
  BY <1>1, <1>2 DEF IInv, TypeOK, bufferVars
<1>5. /\ UnmatchedIsNotReceived' /\ OneStatePerProcess'
      /\ UNCHANGED running => SavedIsNotRunning'
  BY <1>2, ShrinkKeeps DEF IInv, bufferVars
<1>6. NewIsNotRendezvous'
  BY <1>1 DEF IInv, NewIsNotRendezvous, bufferVars, Resources
<1>7. CountsAreExact'
  <2> SUFFICES ASSUME NEW q \in Resources
               PROVE  count'[q] = Cardinality(Holders(q)') + Pending(q)'
    BY DEF CountsAreExact
  <2>1. count'[q] = count[q] - Once({r})[q]
    BY DEF Release
  <2>2. count[q] = Cardinality(Holders(q)) + Pending(q) /\ Cardinality(Holders(q)) \in Nat
    BY ZeroMeansFree DEF IInv, CountsAreExact
  <2>3. Once({r})[q] \in Nat /\ Pending(q) \in {0, 1}
    BY OnceIsNumber DEF Pending
  <2>4. Cardinality(Holders(q)') = Cardinality(Holders(q)) - Once({r})[q]
    BY <1>2
  <2>5. Pending(q)' = Pending(q)
    BY <1>3
  <2> QED BY <2>1, <2>2, <2>3, <2>4, <2>5
<1> QED BY <1>1, <1>3, <1>4, <1>5, <1>6, <1>7

LEMMA CloseSendInv == ASSUME IInv, NEW b \in Buffers, CloseSend(b) PROVE IInv'
<1>1. b \in Resources /\ "sent" \in Roles /\ running' \in SUBSET Controllers
  BY DEF CloseSend, Resources, Roles, IInv, TypeOK
<1> QED BY <1>1, DropReference DEF CloseSend, IInv

LEMMA FinishOperationInv == ASSUME IInv, NEW b \in Buffers, FinishOperation(b) PROVE IInv'
<1>1. b \in Resources /\ "operation" \in Roles /\ running' \in SUBSET Controllers
  BY DEF FinishOperation, Resources, Roles, IInv, TypeOK
<1> QED BY <1>1, DropReference DEF FinishOperation, IInv

LEMMA CloseReceiveInv ==
  ASSUME IInv, NEW b \in Buffers, NEW c \in Controllers, CloseReceive(b, c)
  PROVE  IInv'
<1> DEFINE made == Completed({c})
           drop == [r \in Resources |-> (IF r \in made THEN 1 ELSE 0) + (IF r = b THEN 1 ELSE 0)]
<1>a. /\ current \in GStates /\ b \in Resources /\ "received" \in Roles /\ {c} \in SUBSET Controllers
      /\ Holds(current, b, "received") /\ WriteBuffers({c}) /\ Release(drop)
      /\ held' = [held EXCEPT ![current] = @ \ {<<b, "received">>}]
      /\ UNCHANGED <<hash, targets, rendezvous, current, running, checked>>
  BY DEF CloseReceive, Resources, Roles
<1>b. drop \in [Resources -> Nat]
  OBVIOUS
<1>1. /\ stage' \in [Resources -> {"new", "live", "unused", "freed"}]
      /\ count' \in [Resources -> Int]
      /\ total' \in [Managers -> Int]
      /\ LiveIsCounted'
      /\ \A q \in Resources : stage'[q] = "new" => stage[q] = "new"
  <2> HIDE DEF drop
  <2> QED BY <1>a, <1>b, ReleaseKeeps DEF IInv
<1>2. /\ held' \in [GStates -> SUBSET (Resources \X Roles)]
      /\ \A g \in GStates : held'[g] \subseteq held[g]
      /\ \A q \in Resources :
           Cardinality(Holders(q)') = Cardinality(Holders(q)) - Once({b})[q]
  BY <1>a, RemoveReference DEF IInv
<1>3. /\ remaining' \in [Buffers -> Int]
      /\ toMake' \in [Controllers -> SUBSET Buffers]
      /\ written' \in [Buffers -> SUBSET Controllers]
      /\ RemainingIsExact'
      /\ \A q \in Resources : Pending(q)' = Pending(q) - Once(made)[q]
  BY <1>a, WriteKeeps DEF IInv
<1>4. TypeOK'
  BY <1>1, <1>2, <1>3, <1>a DEF IInv, TypeOK
<1>5. UnmatchedIsNotReceived' /\ SavedIsNotRunning' /\ OneStatePerProcess'
  BY <1>2, <1>a, ShrinkKeeps DEF IInv
<1>6. NewIsNotRendezvous'
  BY <1>1, <1>a DEF IInv, NewIsNotRendezvous, Resources
<1>7. CountsAreExact'
  <2> SUFFICES ASSUME NEW q \in Resources
               PROVE  count'[q] = Cardinality(Holders(q)') + Pending(q)'
    BY DEF CountsAreExact
  <2>1. count'[q] = count[q] - (Once(made)[q] + Once({b})[q])
    BY <1>a DEF Release, Once
  <2>2. count[q] = Cardinality(Holders(q)) + Pending(q) /\ Cardinality(Holders(q)) \in Nat
    BY ZeroMeansFree DEF IInv, CountsAreExact
  <2>3. Once({b})[q] \in Nat /\ Once(made)[q] \in Nat /\ Pending(q) \in {0, 1}
    BY OnceIsNumber DEF Pending
  <2>4. Cardinality(Holders(q)') = Cardinality(Holders(q)) - Once({b})[q]
    BY <1>2
  <2>5. Pending(q)' = Pending(q) - Once(made)[q]
    BY <1>3
  <2> HIDE DEF made, drop
  <2> QED BY <2>1, <2>2, <2>3, <2>4, <2>5
<1> QED BY <1>1, <1>3, <1>4, <1>5, <1>6, <1>7 DEF IInv

\* Writing buffers releases exactly the reference of new_buffer.
LEMMA WriteInv ==
  ASSUME IInv, NEW C \in SUBSET Controllers, WriteBuffers(C),
         NEW drop, drop = Once(Completed(C)),
         count' = [r \in Resources |-> count[r] - drop[r]],
         UNCHANGED held
  PROVE  CountsAreExact'
<1> SUFFICES ASSUME NEW q \in Resources
             PROVE  count'[q] = Cardinality(Holders(q)') + Pending(q)'
  BY DEF CountsAreExact
<1>1. count'[q] = count[q] - drop[q]
  OBVIOUS
<1>2. count[q] = Cardinality(Holders(q)) + Pending(q) /\ Cardinality(Holders(q)) \in Nat
  BY ZeroMeansFree DEF IInv, CountsAreExact
<1>3. drop[q] \in Nat /\ Pending(q) \in {0, 1}
  BY OnceIsNumber DEF Pending
<1>4. Holders(q)' = Holders(q)
  BY DEF Holders, Holds
<1>5. Pending(q)' = Pending(q) - drop[q]
  BY WriteKeeps DEF IInv
<1> QED BY <1>1, <1>2, <1>3, <1>4, <1>5

LEMMA MakeBuffersInv == ASSUME IInv, NEW c \in Controllers, MakeBuffers(c) PROVE IInv'
<1> DEFINE drop == Once(Completed({c}))
<1>a. /\ WriteBuffers({c}) /\ Release(drop) /\ {c} \in SUBSET Controllers
      /\ UNCHANGED <<hash, targets, rendezvous, held, current, running, checked>>
  BY DEF MakeBuffers
<1>1. /\ stage' \in [Resources -> {"new", "live", "unused", "freed"}]
      /\ count' \in [Resources -> Int]
      /\ total' \in [Managers -> Int]
      /\ LiveIsCounted'
      /\ \A q \in Resources : stage'[q] = "new" => stage[q] = "new"
  BY <1>a, ReleaseKeeps, OnceIsNumber DEF IInv
<1>2. /\ remaining' \in [Buffers -> Int]
      /\ toMake' \in [Controllers -> SUBSET Buffers]
      /\ written' \in [Buffers -> SUBSET Controllers]
      /\ RemainingIsExact'
  BY <1>a, WriteKeeps DEF IInv
<1>3. TypeOK'
  BY <1>1, <1>2, <1>a DEF IInv, TypeOK
<1>4. UnmatchedIsNotReceived' /\ SavedIsNotRunning' /\ OneStatePerProcess'
  BY <1>a, ShrinkKeeps DEF IInv
<1>5. NewIsNotRendezvous'
  BY <1>1, <1>a DEF IInv, NewIsNotRendezvous, Resources
<1>6. CountsAreExact'
  BY <1>a, WriteInv DEF Release
<1> QED BY <1>1, <1>2, <1>3, <1>4, <1>5, <1>6 DEF IInv

LEMMA CleanupBuffersInv == ASSUME IInv, CleanupBuffers PROVE IInv'
<1>a. /\ stage' = [r \in Resources |->
                     IF r \in Buffers /\ stage[r] = "unused" THEN "freed" ELSE stage[r]]
      /\ written' = [b \in Buffers |-> IF stage[b] = "unused" THEN {} ELSE written[b]]
      /\ UNCHANGED <<count, total, hash, targets, remaining, toMake, rendezvous,
                     held, current, running, checked>>
  BY DEF CleanupBuffers
<1>1. TypeOK'
  <2>1. stage' \in [Resources -> {"new", "live", "unused", "freed"}]
    BY <1>a DEF IInv, TypeOK
  <2>2. written' \in [Buffers -> SUBSET Controllers]
    BY <1>a DEF IInv, TypeOK
  <2> QED BY <2>1, <2>2, <1>a DEF IInv, TypeOK
<1>2. RemainingIsExact' /\ \A r \in Resources : Pending(r)' = Pending(r)
  BY <1>a, SameBuffers DEF IInv
<1>3. CountsAreExact'
  <2>1. \A r \in Resources : Holders(r)' = Holders(r)
    BY <1>a DEF Holders, Holds
  <2> QED BY <2>1, <1>2, <1>a DEF IInv, CountsAreExact
<1>4. LiveIsCounted' /\ NewIsNotRendezvous'
  BY <1>a DEF IInv, LiveIsCounted, NewIsNotRendezvous, Resources
<1>5. UnmatchedIsNotReceived' /\ SavedIsNotRunning' /\ OneStatePerProcess'
  BY <1>a, ShrinkKeeps DEF IInv
<1> QED BY <1>1, <1>2, <1>3, <1>4, <1>5 DEF IInv

-----------------------------------------------------------------------------
(* Saved processes *)

\* The reference that save_state returns goes to the state of the process in c.
LEMMA SaveReference ==
  ASSUME IInv, NEW c \in Controllers, NEW s \in VgStates,
         current \in GStates, c \in running, ControllerOf[s] = c,
         stage' = [stage EXCEPT ![s] = "live"],
         count' = [count EXCEPT ![s] = @ + 1],
         held' = [held EXCEPT ![current] = @ \cup {<<s, "process">>}],
         running' = running \ {c},
         UNCHANGED <<bufferVars, current, checked>>
  PROVE  /\ held' \in [GStates -> SUBSET (Resources \X Roles)]
         /\ CountsAreExact' /\ LiveIsCounted' /\ RemainingIsExact'
         /\ UnmatchedIsNotReceived' /\ NewIsNotRendezvous'
         /\ SavedIsNotRunning' /\ OneStatePerProcess'
<1>a. s \in Resources /\ "process" \in Roles /\ TypeOK /\ s \notin Buffers
  BY ResourceAssumption DEF Resources, Roles, IInv
<1>b. ~Holds(current, s, "process")
  BY DEF IInv, SavedIsNotRunning
<1>1. /\ held' \in [GStates -> SUBSET (Resources \X Roles)]
      /\ \A q \in Resources :
           Cardinality(Holders(q)') = Cardinality(Holders(q)) + Once({s})[q]
  BY <1>a, <1>b, AddReference
<1>2. RemainingIsExact' /\ \A q \in Resources : Pending(q)' = Pending(q)
  BY SameBuffers DEF IInv, bufferVars
<1>3. CountsAreExact'
  <2> SUFFICES ASSUME NEW q \in Resources
               PROVE  count'[q] = Cardinality(Holders(q)') + Pending(q)'
    BY DEF CountsAreExact
  <2>1. count'[q] = count[q] + Once({s})[q]
    BY <1>a DEF TypeOK, Once
  <2>2. count[q] = Cardinality(Holders(q)) + Pending(q) /\ Cardinality(Holders(q)) \in Nat
    BY ZeroMeansFree DEF IInv, CountsAreExact
  <2>3. Once({s})[q] \in Nat /\ Pending(q) \in {0, 1}
    BY OnceIsNumber DEF Pending
  <2>4. Cardinality(Holders(q)') = Cardinality(Holders(q)) + Once({s})[q]
    BY <1>1
  <2>5. Pending(q)' = Pending(q)
    BY <1>2
  <2> QED BY <2>1, <2>2, <2>3, <2>4, <2>5
<1>4. LiveIsCounted'
  <2>1. count[s] >= 0 /\ count[s] \in Int
    BY <1>a, ZeroMeansFree DEF IInv, TypeOK
  <2> QED BY <2>1, <1>a DEF IInv, LiveIsCounted, TypeOK
<1>5. ASSUME NEW g \in GStates, NEW q, NEW role
      PROVE  Holds(g, q, role)' <=>
               Holds(g, q, role) \/ (g = current /\ q = s /\ role = "process")
  BY <1>a DEF Holds, TypeOK
<1>6. UnmatchedIsNotReceived'
  BY <1>5 DEF IInv, UnmatchedIsNotReceived, bufferVars
<1>7. NewIsNotRendezvous'
  BY <1>a DEF IInv, NewIsNotRendezvous, bufferVars, TypeOK, Resources
<1>8. SavedIsNotRunning'
  <2>1. current # NoGState
    BY ResourceAssumption
  <2> QED BY <2>1, <1>5 DEF IInv, SavedIsNotRunning
<1>9. OneStatePerProcess'
  <2> SUFFICES ASSUME NEW g \in GStates, NEW t \in VgStates, NEW u \in VgStates,
                      Holds(g, t, "process")', Holds(g, u, "process")',
                      ControllerOf[t] = ControllerOf[u]
               PROVE  t = u
    BY DEF OneStatePerProcess
  <2>1. g = current => \A v \in VgStates :
           Holds(g, v, "process") => ControllerOf[v] # c
    BY DEF IInv, SavedIsNotRunning
  <2> QED BY <2>1, <1>5 DEF IInv, OneStatePerProcess
<1> QED BY <1>1, <1>2, <1>3, <1>4, <1>6, <1>7, <1>8, <1>9

LEMMA SaveCachedInv ==
  ASSUME IInv, NEW c \in Controllers, NEW s \in VgStates, SaveCached(c, s)
  PROVE  IInv'
<1>1. ControllerOf[s] = c /\ s \in Resources
  BY DEF SaveCached, Cached, Resources
<1>2. /\ held' \in [GStates -> SUBSET (Resources \X Roles)]
      /\ CountsAreExact' /\ LiveIsCounted' /\ RemainingIsExact'
      /\ UnmatchedIsNotReceived' /\ NewIsNotRendezvous'
      /\ SavedIsNotRunning' /\ OneStatePerProcess'
  BY <1>1, SaveReference DEF SaveCached
<1>3. TypeOK'
  <2>1. /\ stage' \in [Resources -> {"new", "live", "unused", "freed"}]
        /\ count' \in [Resources -> Int]
    BY <1>1 DEF SaveCached, IInv, TypeOK
  <2>2. total' \in [Managers -> Int]
    BY DEF SaveCached, IInv, TypeOK, Managers
  <2> QED BY <2>1, <2>2, <1>2 DEF SaveCached, IInv, TypeOK, bufferVars
<1> QED BY <1>2, <1>3 DEF IInv

LEMMA SaveNewInv ==
  ASSUME IInv, NEW c \in Controllers, NEW s \in VgStates, NEW h \in Hashes, SaveNew(c, s, h)
  PROVE  IInv'
<1>1. ControllerOf[s] = c /\ s \in Resources
  BY DEF SaveNew, Resources
<1>2. count' = [count EXCEPT ![s] = @ + 1]
  <2>1. Holders(s) = {} /\ Pending(s) = 0
    BY <1>1, NewIsFree DEF SaveNew
  <2>2. count[s] = 0
    BY <1>1, <2>1, FS_EmptySet DEF IInv, CountsAreExact
  <2> QED BY <2>2 DEF SaveNew
<1>3. /\ held' \in [GStates -> SUBSET (Resources \X Roles)]
      /\ CountsAreExact' /\ LiveIsCounted' /\ RemainingIsExact'
      /\ UnmatchedIsNotReceived' /\ NewIsNotRendezvous'
      /\ SavedIsNotRunning' /\ OneStatePerProcess'
  BY <1>1, <1>2, SaveReference DEF SaveNew
<1>4. TypeOK'
  <2>1. /\ stage' \in [Resources -> {"new", "live", "unused", "freed"}]
        /\ count' \in [Resources -> Int]
        /\ hash' \in [VgStates -> Hashes \cup {NoHash}]
    BY <1>1 DEF SaveNew, IInv, TypeOK
  <2>2. total' \in [Managers -> Int]
    BY DEF SaveNew, IInv, TypeOK, Managers
  <2> QED BY <2>1, <2>2, <1>3 DEF SaveNew, IInv, TypeOK, bufferVars
<1> QED BY <1>3, <1>4 DEF IInv

LEMMA ExitInv == ASSUME IInv, NEW c \in Controllers, Exit(c) PROVE IInv'
<1>a. running' = running \ {c} /\ UNCHANGED <<stage, count, total, hash, bufferVars, held,
                                              current, checked>>
  BY DEF Exit
<1>1. TypeOK'
  BY <1>a DEF IInv, TypeOK, bufferVars
<1>2. RemainingIsExact' /\ \A r \in Resources : Pending(r)' = Pending(r)
  BY <1>a, SameBuffers DEF IInv, bufferVars
<1>3. CountsAreExact'
  <2>1. \A r \in Resources : Holders(r)' = Holders(r)
    BY <1>a DEF Holders, Holds
  <2> QED BY <2>1, <1>2, <1>a DEF IInv, CountsAreExact
<1>4. /\ LiveIsCounted' /\ UnmatchedIsNotReceived' /\ NewIsNotRendezvous'
      /\ SavedIsNotRunning' /\ OneStatePerProcess'
  BY <1>a DEF IInv, LiveIsCounted, UnmatchedIsNotReceived, NewIsNotRendezvous,
             SavedIsNotRunning, OneStatePerProcess, Holds, bufferVars
<1> QED BY <1>1, <1>2, <1>3, <1>4 DEF IInv

LEMMA RestoreInv == ASSUME IInv, NEW s \in VgStates, Restore(s) PROVE IInv'
<1>1. /\ s \in Resources /\ "process" \in Roles /\ running' \in SUBSET Controllers
      /\ current \in GStates /\ current # NoGState
  BY ResourceAssumption DEF Restore, Resources, Roles, IInv, TypeOK
<1>2. /\ TypeOK' /\ CountsAreExact' /\ LiveIsCounted' /\ RemainingIsExact'
      /\ UnmatchedIsNotReceived' /\ NewIsNotRendezvous' /\ OneStatePerProcess'
  BY <1>1, DropReference DEF Restore
<1>3. SavedIsNotRunning'
  <2>1. ASSUME NEW t \in VgStates, Holds(current, t, "process")'
        PROVE  ControllerOf[t] \notin running'
    <3>1. t # s /\ Holds(current, t, "process")
      BY <1>1, <2>1 DEF Restore, Holds, IInv, TypeOK
    <3>2. ControllerOf[t] # ControllerOf[s]
      BY <1>1, <3>1 DEF Restore, IInv, OneStatePerProcess
    <3> QED BY <1>1, <3>1, <3>2 DEF Restore, IInv, SavedIsNotRunning
  <2> QED BY <2>1, <1>1 DEF SavedIsNotRunning, Restore
<1> QED BY <1>2, <1>3 DEF IInv

-----------------------------------------------------------------------------
(* Global states *)

\* What g holds of r, as pairs of Holders(r).
LEMMA ReferencesOf ==
  ASSUME NEW g \in GStates, NEW h \in GStates, NEW r \in Resources
  PROVE  Cardinality({h} \X RolesOf(g, r)) = References(g)[r]
<1>1. IsFiniteSet(RolesOf(g, r)) /\ Cardinality(RolesOf(g, r)) \in Nat
  <2>1. RolesOf(g, r) \in SUBSET Roles
    BY DEF RolesOf
  <2> QED BY <2>1, RolesAreFinite, FS_Subset, FS_CardinalityType
<1>2. IsFiniteSet({h}) /\ Cardinality({h}) = 1
  BY FS_Singleton
<1>3. Cardinality({h} \X RolesOf(g, r)) = 1 * Cardinality(RolesOf(g, r))
  BY <1>1, <1>2, FS_Product
<1> QED BY <1>1, <1>3 DEF References

LEMMA CopyInv == ASSUME IInv, NEW g \in GStates, Copy(g) PROVE IInv'
<1>a. /\ current \in GStates /\ g # current /\ held[g] = {} /\ TypeOK
      /\ count' = [r \in Resources |-> count[r] + References(current)[r]]
      /\ held' = [held EXCEPT ![g] = held[current]]
      /\ UNCHANGED <<stage, total, hash, bufferVars, current, running, checked>>
  BY DEF Copy, Alive, IInv
<1>b. References(current) \in [Resources -> Nat]
  BY <1>a, ReferencesAreNumbers
<1>1. TypeOK'
  <2>1. held' \in [GStates -> SUBSET (Resources \X Roles)]
    BY <1>a DEF TypeOK
  <2>2. count' \in [Resources -> Int]
    BY <1>a, <1>b DEF TypeOK
  <2> QED BY <2>1, <2>2, <1>a DEF TypeOK, bufferVars
<1>2. RemainingIsExact' /\ \A r \in Resources : Pending(r)' = Pending(r)
  BY <1>a, SameBuffers DEF IInv, bufferVars
<1>3. CountsAreExact'
  <2> SUFFICES ASSUME NEW q \in Resources
               PROVE  count'[q] = Cardinality(Holders(q)') + Pending(q)'
    BY DEF CountsAreExact
  <2> DEFINE copied == {g} \X RolesOf(current, q)
  <2>1. Holders(q)' = Holders(q) \cup copied /\ Holders(q) \cap copied = {}
    BY <1>a DEF Holders, Holds, RolesOf, TypeOK
  <2>2. /\ IsFiniteSet(Holders(q)) /\ Cardinality(Holders(q)) \in Nat
        /\ IsFiniteSet(copied)
    BY HoldersAreFinite DEF Holders, RolesOf
  <2>3. Cardinality(copied) = References(current)[q]
    BY <1>a, ReferencesOf
  <2> HIDE DEF copied
  <2>4. Cardinality(Holders(q)') = Cardinality(Holders(q)) + References(current)[q] - 0
    BY <2>1, <2>2, <2>3, FS_Union, FS_EmptySet
  <2>5. count[q] = Cardinality(Holders(q)) + Pending(q) /\ Pending(q) \in {0, 1}
    BY DEF IInv, CountsAreExact, Pending
  <2>6. Pending(q)' = Pending(q) /\ References(current)[q] \in Nat
    BY <1>2, <1>b
  <2> QED BY <2>2, <2>4, <2>5, <2>6, <1>a
<1>4. LiveIsCounted'
  <2> SUFFICES ASSUME NEW q \in Resources
               PROVE  stage[q] = "live" <=> count'[q] > 0
    BY <1>a DEF LiveIsCounted
  <2>1. count[q] \in Int /\ count[q] >= 0 /\ References(current)[q] \in Nat
    BY <1>a, <1>b, ZeroMeansFree DEF IInv, TypeOK
  <2>2. CASE RolesOf(current, q) = {}
    <3>1. References(current)[q] = 0
      BY <2>2, FS_EmptySet DEF References
    <3> QED BY <3>1, <2>1, <1>a DEF IInv, LiveIsCounted
  <2>3. CASE RolesOf(current, q) # {}
    <3>1. PICK role \in RolesOf(current, q) : TRUE
      BY <2>3
    <3>2. <<current, role>> \in Holders(q)
      BY <3>1, <1>a DEF RolesOf, Holders
    <3>3. count[q] > 0
      BY <3>2, ZeroMeansFree DEF IInv
    <3> QED BY <3>3, <2>1, <1>a DEF IInv, LiveIsCounted
  <2> QED BY <2>2, <2>3
<1>5. ASSUME NEW h \in GStates
      PROVE  held'[h] = IF h = g THEN held[current] ELSE held[h]
  BY <1>a DEF TypeOK
<1>6. UnmatchedIsNotReceived' /\ OneStatePerProcess'
  BY <1>5, <1>a DEF IInv, UnmatchedIsNotReceived, OneStatePerProcess, Holds, bufferVars
<1>7. NewIsNotRendezvous' /\ SavedIsNotRunning'
  BY <1>5, <1>a DEF IInv, NewIsNotRendezvous, SavedIsNotRunning, Holds, bufferVars
<1> QED BY <1>1, <1>2, <1>3, <1>4, <1>6, <1>7 DEF IInv

LEMMA DisposeInv == ASSUME IInv, Dispose PROVE IInv'
<1>a. /\ current \in GStates /\ running = {} /\ Release(References(current)) /\ TypeOK
      /\ held' = [held EXCEPT ![current] = {}] /\ current' = NoGState
      /\ UNCHANGED <<hash, bufferVars, running, checked>>
  BY DEF Dispose, IInv
<1>b. References(current) \in [Resources -> Nat]
  BY <1>a, ReferencesAreNumbers
<1>1. /\ stage' \in [Resources -> {"new", "live", "unused", "freed"}]
      /\ count' \in [Resources -> Int]
      /\ total' \in [Managers -> Int]
      /\ LiveIsCounted'
      /\ \A q \in Resources : stage'[q] = "new" => stage[q] = "new"
  BY <1>a, <1>b, ReleaseKeeps DEF IInv
<1>2. /\ held' \in [GStates -> SUBSET (Resources \X Roles)]
      /\ \A g \in GStates : held'[g] \subseteq held[g]
  BY <1>a DEF TypeOK
<1>3. TypeOK'
  BY <1>1, <1>2, <1>a DEF TypeOK, bufferVars
<1>4. RemainingIsExact' /\ \A r \in Resources : Pending(r)' = Pending(r)
  BY <1>a, SameBuffers DEF IInv, bufferVars
<1>5. CountsAreExact'
  <2> SUFFICES ASSUME NEW q \in Resources
               PROVE  count'[q] = Cardinality(Holders(q)') + Pending(q)'
    BY DEF CountsAreExact
  <2> DEFINE disposed == {current} \X RolesOf(current, q)
  <2>1. /\ Holders(q)' = Holders(q) \ disposed
        /\ Holders(q) \cap disposed = disposed
    BY <1>a DEF Holders, Holds, RolesOf, TypeOK
  <2>2. IsFiniteSet(Holders(q)) /\ Cardinality(Holders(q)) \in Nat
    BY HoldersAreFinite DEF Holders
  <2>3. Cardinality(disposed) = References(current)[q]
    BY <1>a, ReferencesOf
  <2> HIDE DEF disposed
  <2>4. Cardinality(Holders(q)') = Cardinality(Holders(q)) - References(current)[q]
    <3>1. Cardinality(Holders(q) \ disposed) =
            Cardinality(Holders(q)) - Cardinality(Holders(q) \cap disposed)
      BY <2>2, FS_Difference
    <3> QED BY <3>1, <2>1, <2>3
  <2>5. count[q] = Cardinality(Holders(q)) + Pending(q) /\ Pending(q) \in {0, 1}
    BY DEF IInv, CountsAreExact, Pending
  <2>6. Pending(q)' = Pending(q) /\ References(current)[q] \in Nat
    BY <1>4, <1>b
  <2>7. count'[q] = count[q] - References(current)[q]
    BY <1>a DEF Release
  <2> QED BY <2>2, <2>4, <2>5, <2>6, <2>7
<1>6. UnmatchedIsNotReceived' /\ OneStatePerProcess'
  BY <1>2, <1>a DEF IInv, UnmatchedIsNotReceived, OneStatePerProcess, Holds, bufferVars
<1>7. NewIsNotRendezvous' /\ SavedIsNotRunning'
  BY <1>1, <1>a, ResourceAssumption
     DEF IInv, NewIsNotRendezvous, SavedIsNotRunning, bufferVars, Resources
<1> QED BY <1>1, <1>3, <1>4, <1>5, <1>6, <1>7 DEF IInv

LEMMA StartGContextInv == ASSUME IInv, NEW g \in GStates, StartGContext(g) PROVE IInv'
<1>a. /\ current = NoGState /\ current' = g
      /\ UNCHANGED <<stage, count, total, hash, bufferVars, held, running, checked>>
  BY DEF StartGContext
<1>1. TypeOK'
  BY <1>a DEF IInv, TypeOK, bufferVars
<1>2. RemainingIsExact' /\ \A r \in Resources : Pending(r)' = Pending(r)
  BY <1>a, SameBuffers DEF IInv, bufferVars
<1>3. CountsAreExact'
  <2>1. \A r \in Resources : Holders(r)' = Holders(r)
    BY <1>a DEF Holders, Holds
  <2> QED BY <2>1, <1>2, <1>a DEF IInv, CountsAreExact
<1>4. LiveIsCounted' /\ UnmatchedIsNotReceived' /\ NewIsNotRendezvous' /\ OneStatePerProcess'
  BY <1>a DEF IInv, LiveIsCounted, UnmatchedIsNotReceived, NewIsNotRendezvous,
             OneStatePerProcess, Holds, bufferVars
<1>5. SavedIsNotRunning'
  BY <1>a, ResourceAssumption DEF IInv, SavedIsNotRunning
<1> QED BY <1>1, <1>2, <1>3, <1>4, <1>5 DEF IInv

LEMMA FinalCheckInv == ASSUME IInv, FinalCheck PROVE IInv'
<1> DEFINE drop == Once(Completed(Controllers))
<1>a. /\ WriteBuffers(Controllers) /\ Controllers \in SUBSET Controllers
      /\ current = NoGState /\ checked' = TRUE
      /\ count' = [r \in Resources |-> count[r] - drop[r]]
      /\ total' = [m \in Managers |->
                     total[m] - Cardinality({r \in Dropped(drop) : Manager(r) = m})]
      /\ stage' = [r \in Resources |->
                     IF stage[r] = "unused" \/ r \in Dropped(drop) THEN "freed" ELSE stage[r]]
      /\ UNCHANGED <<hash, targets, rendezvous, held, current, running>>
  BY DEF FinalCheck
<1>b. drop \in [Resources -> Nat] /\ TypeOK
  BY OnceIsNumber DEF IInv
<1>1. /\ remaining' \in [Buffers -> Int]
      /\ toMake' \in [Controllers -> SUBSET Buffers]
      /\ written' \in [Buffers -> SUBSET Controllers]
      /\ RemainingIsExact'
  BY <1>a, WriteKeeps DEF IInv
<1>2. TypeOK'
  <2>1. stage' \in [Resources -> {"new", "live", "unused", "freed"}]
    BY <1>a DEF IInv, TypeOK
  <2>2. count' \in [Resources -> Int]
    BY <1>a, <1>b DEF TypeOK
  <2>3. ASSUME NEW m \in Managers
        PROVE  Cardinality({r \in Dropped(drop) : Manager(r) = m}) \in Nat
    <3>1. {r \in Dropped(drop) : Manager(r) = m} \in SUBSET Resources
      BY DEF Dropped
    <3> QED BY <3>1, ResourcesAreFinite
  <2>4. total' \in [Managers -> Int]
    BY <1>a, <2>3 DEF IInv, TypeOK
  <2> QED BY <2>1, <2>2, <2>4, <1>1, <1>a DEF IInv, TypeOK
<1>3. CountsAreExact'
  BY <1>a, WriteInv
<1>4. LiveIsCounted'
  <2> SUFFICES ASSUME NEW r \in Resources
               PROVE  stage'[r] = "live" <=> count'[r] > 0
    BY DEF LiveIsCounted
  <2>1. /\ count'[r] = count[r] - drop[r] /\ count[r] \in Int /\ drop[r] \in Nat
        /\ stage'[r] = IF stage[r] = "unused" \/ r \in Dropped(drop) THEN "freed" ELSE stage[r]
        /\ stage[r] = "live" <=> count[r] > 0
    BY <1>a, <1>b DEF IInv, TypeOK, LiveIsCounted
  <2>2. r \in Dropped(drop) <=> drop[r] > 0 /\ count[r] - drop[r] < 1
    BY DEF Dropped
  <2> HIDE DEF drop
  <2> QED BY <2>1, <2>2
<1>5. UnmatchedIsNotReceived' /\ SavedIsNotRunning' /\ OneStatePerProcess'
  BY <1>a, ShrinkKeeps DEF IInv
<1>6. NewIsNotRendezvous'
  BY <1>a DEF IInv, NewIsNotRendezvous, Resources
<1> QED BY <1>1, <1>2, <1>3, <1>4, <1>5, <1>6 DEF IInv

-----------------------------------------------------------------------------
(* The theorems *)

LEMMA NextInv == IInv /\ [Next]_vars => IInv'
<1> SUFFICES ASSUME IInv, [Next]_vars PROVE IInv'
  OBVIOUS
<1>1. ASSUME NEW b \in Buffers, NEW c \in Controllers, Send(b, c) PROVE IInv'
  <2>1. {c} \in SUBSET Controllers /\ {c} # {}
    OBVIOUS
  <2>2. CASE NewBuffer(b, {c}, {"active"}, TRUE)
    BY <2>1, <2>2, NewBufferInv
  <2>3. CASE NewBuffer(b, {c}, {"active", "sent"}, FALSE)
    BY <2>1, <2>3, NewBufferInv
  <2> QED BY <1>1, <2>2, <2>3 DEF Send
<1>2. ASSUME NEW b \in Buffers, NEW C \in SUBSET Controllers, EnterOperation(b, C) PROVE IInv'
  BY <1>2, NewBufferInv DEF EnterOperation
<1>3. ASSUME NEW b \in Buffers, Match(b) \/ CloseSend(b) \/ FinishOperation(b) PROVE IInv'
  BY <1>3, MatchInv, CloseSendInv, FinishOperationInv
<1>4. ASSUME NEW b \in Buffers, NEW c \in Controllers, CloseReceive(b, c) PROVE IInv'
  BY <1>4, CloseReceiveInv
<1>5. ASSUME NEW c \in Controllers, MakeBuffers(c) \/ Exit(c) PROVE IInv'
  BY <1>5, MakeBuffersInv, ExitInv
<1>6. ASSUME NEW c \in Controllers, NEW s \in VgStates,
             SaveCached(c, s) \/ \E h \in Hashes : SaveNew(c, s, h)
      PROVE  IInv'
  BY <1>6, SaveCachedInv, SaveNewInv
<1>7. ASSUME NEW s \in VgStates, Restore(s) PROVE IInv'
  BY <1>7, RestoreInv
<1>8. ASSUME NEW g \in GStates, Copy(g) \/ StartGContext(g) PROVE IInv'
  BY <1>8, CopyInv, StartGContextInv
<1>9. ASSUME Dispose \/ CleanupBuffers \/ FinalCheck PROVE IInv'
  BY <1>9, DisposeInv, CleanupBuffersInv, FinalCheckInv
<1>10. ASSUME UNCHANGED vars PROVE IInv'
  <2>1. /\ stage' = stage /\ count' = count /\ total' = total /\ hash' = hash
        /\ targets' = targets /\ remaining' = remaining /\ toMake' = toMake
        /\ written' = written /\ rendezvous' = rendezvous /\ held' = held
        /\ current' = current /\ running' = running /\ checked' = checked
    BY <1>10 DEF vars, bufferVars
  <2>2. TypeOK'
    BY <2>1 DEF IInv, TypeOK
  <2>3. CountsAreExact'
    BY <2>1 DEF IInv, CountsAreExact, Holders, Holds, Pending, Waiting
  <2>4. LiveIsCounted' /\ RemainingIsExact'
    BY <2>1 DEF IInv, LiveIsCounted, RemainingIsExact, Waiting
  <2>5. UnmatchedIsNotReceived' /\ NewIsNotRendezvous'
    BY <2>1 DEF IInv, UnmatchedIsNotReceived, NewIsNotRendezvous, Holds
  <2>6. SavedIsNotRunning' /\ OneStatePerProcess'
    BY <2>1 DEF IInv, SavedIsNotRunning, OneStatePerProcess, Holds
  <2> QED BY <2>2, <2>3, <2>4, <2>5, <2>6 DEF IInv
<1> QED BY <1>1, <1>2, <1>3, <1>4, <1>5, <1>6, <1>7, <1>8, <1>9, <1>10 DEF Next

LEMMA SpecInv == Spec => []IInv
BY InitInv, NextInv, PTL DEF Spec

\* The variables keep their types, for any number of processes, buffers, saved
\* processes and global states.
THEOREM ResourcesTypeCorrect == Spec => []TypeOK
BY SpecInv, PTL DEF IInv

\* ref_count of a buffer or a saved process (resource.py) is at every moment the
\* number of references to it: those that the roles of a global state stand for,
\* and the one of new_buffer while a client has not got the buffer.
THEOREM ReferenceCountsAreExact == Spec => []CountsAreExact
BY SpecInv, PTL DEF IInv

\* free_buffer and free_state are never called for a resource that is referred to,
\* and a resource that is not is in not_used_resources or freed.
THEOREM ResourcesInUseAreNotFreed == Spec => []NoUseAfterFree
<1>1. IInv => NoUseAfterFree
  BY ZeroMeansFree DEF IInv, LiveIsCounted, NoUseAfterFree
<1> QED BY <1>1, SpecInv, PTL

-----------------------------------------------------------------------------
(* Clean-up: the parts of the inductive invariant beside IInv. *)

LiveOf(m) == {r \in Resources : Manager(r) = m /\ stage[r] = "live"}

\* resource_count of a manager: what it has given out and not got back.
TotalIsExact == \A m \in Managers : total[m] = Cardinality(LiveOf(m))

NewIsUnwritten == \A b \in Buffers : stage[b] = "new" => written[b] = {}

\* Nothing happens after final_check.
CheckedIsOver ==
  checked =>
    /\ current = NoGState
    /\ Alive = {}
    /\ \A r \in Resources : stage[r] \in {"new", "freed"}
    /\ \A c \in Controllers : toMake[c] = {}

CInv ==
  /\ TotalIsExact
  /\ NewIsUnwritten
  /\ BuffersReachTheirControllers
  /\ CacheIsAFunction
  /\ CheckedIsOver

-----------------------------------------------------------------------------
(* What loses a reference is live *)

LEMMA HeldIsLive ==
  ASSUME IInv, NEW g \in GStates, NEW r \in Resources, NEW role \in Roles, Holds(g, r, role)
  PROVE  stage[r] = "live"
<1>1. <<g, role>> \in Holders(r)
  BY DEF Holders
<1>2. count[r] > 0
  BY <1>1, ZeroMeansFree DEF IInv
<1> QED BY <1>2 DEF IInv, LiveIsCounted

LEMMA AwaitedIsLive ==
  ASSUME IInv, NEW b \in Buffers, Waiting(b, Controllers) # {}
  PROVE  stage[b] = "live"
<1>1. b \in Resources /\ Pending(b) = 1
  BY DEF Resources, Pending
<1>2. count[b] > 0
  BY <1>1, ZeroMeansFree DEF IInv
<1> QED BY <1>1, <1>2 DEF IInv, LiveIsCounted

LEMMA CompletedIsLive ==
  ASSUME IInv, NEW C \in SUBSET Controllers, NEW b \in Completed(C)
  PROVE  b \in Resources /\ stage[b] = "live"
<1>1. b \in Buffers /\ b \in Resources /\ Waiting(b, C) # {}
  BY DEF Completed, Resources
<1>2. Waiting(b, Controllers) # {}
  BY <1>1 DEF Waiting
<1> QED BY <1>1, <1>2, AwaitedIsLive

\* dec_ref keeps resource_count exact.
LEMMA ReleaseTotals ==
  ASSUME IInv, TotalIsExact, NEW drop \in [Resources -> Nat],
         \A r \in Resources : drop[r] > 0 => stage[r] = "live",
         \A r \in Resources : stage'[r] = "live" <=> (stage[r] = "live" /\ r \notin Dropped(drop)),
         total' = [m \in Managers |->
                     total[m] - Cardinality({r \in Dropped(drop) : Manager(r) = m})]
  PROVE  TotalIsExact'
<1> SUFFICES ASSUME NEW m \in Managers PROVE total'[m] = Cardinality(LiveOf(m)')
  BY DEF TotalIsExact
<1> DEFINE lost == {r \in Dropped(drop) : Manager(r) = m}
<1>1. \A r \in Dropped(drop) : r \in Resources /\ stage[r] = "live"
  BY DEF Dropped
<1>2. LiveOf(m)' = LiveOf(m) \ lost /\ LiveOf(m) \cap lost = lost
  BY <1>1 DEF LiveOf, Manager
<1>3. IsFiniteSet(LiveOf(m))
  <2>1. LiveOf(m) \in SUBSET Resources
    BY DEF LiveOf
  <2> QED BY <2>1, ResourceAssumption, FS_Subset
<1>4. total'[m] = total[m] - Cardinality(lost) /\ total[m] = Cardinality(LiveOf(m))
  BY DEF TotalIsExact
<1> HIDE DEF lost
<1>5. Cardinality(LiveOf(m) \ lost) = Cardinality(LiveOf(m)) - Cardinality(LiveOf(m) \cap lost)
  BY <1>3, FS_Difference
<1> QED BY <1>2, <1>4, <1>5

-----------------------------------------------------------------------------
(* The kinds of steps: most only release references. *)

Releases(drop) ==
  /\ \A r \in Resources : drop[r] > 0 => stage[r] = "live"
  /\ Release(drop)
  /\ UNCHANGED <<hash, targets>>
  /\ \/ UNCHANGED <<remaining, toMake, written>>
     \/ \E C \in SUBSET Controllers : WriteBuffers(C)

Quiet == UNCHANGED <<stage, total, hash, targets, remaining, toMake, written>>

Step ==
  \/ \E drop \in [Resources -> Nat] : Releases(drop)
  \/ \E b \in Buffers, C \in SUBSET Controllers, roles \in SUBSET Roles, kind \in BOOLEAN :
       NewBuffer(b, C, roles, kind)
  \/ \E c \in Controllers, s \in VgStates :
       SaveCached(c, s) \/ \E h \in Hashes : SaveNew(c, s, h)
  \/ CleanupBuffers
  \/ FinalCheck
  \/ Quiet

\* A send, a receive, an operation or a saved process gives up one reference of
\* the current global state.
LEMMA DropIsRelease ==
  ASSUME IInv, current \in GStates, NEW r \in Resources, NEW role \in Roles,
         Holds(current, r, role), Release(Once({r})), UNCHANGED <<hash, bufferVars>>
  PROVE  Step
<1>1. Once({r}) \in [Resources -> Nat]
  BY OnceIsNumber
<1>2. stage[r] = "live"
  BY HeldIsLive
<1>3. \A q \in Resources : Once({r})[q] > 0 => stage[q] = "live"
  BY <1>2 DEF Once
<1>4. Releases(Once({r}))
  BY <1>3 DEF Releases, bufferVars
<1> QED BY <1>1, <1>4 DEF Step

LEMMA CloseReceiveIsRelease ==
  ASSUME IInv, NEW b \in Buffers, NEW c \in Controllers, CloseReceive(b, c)
  PROVE  Step
<1> DEFINE made == Completed({c})
           drop == [r \in Resources |-> (IF r \in made THEN 1 ELSE 0) + (IF r = b THEN 1 ELSE 0)]
<1>1. /\ current \in GStates /\ b \in Resources /\ "received" \in Roles
      /\ {c} \in SUBSET Controllers /\ Holds(current, b, "received")
      /\ WriteBuffers({c}) /\ Release(drop) /\ UNCHANGED <<hash, targets>>
  BY DEF CloseReceive, Resources, Roles
<1>2. drop \in [Resources -> Nat]
  OBVIOUS
<1>3. stage[b] = "live"
  BY <1>1, HeldIsLive
<1>4. \A r \in made : stage[r] = "live"
  BY <1>1, CompletedIsLive
<1>5. \A r \in Resources : drop[r] > 0 => stage[r] = "live"
  BY <1>3, <1>4
<1> HIDE DEF drop
<1>6. Releases(drop)
  BY <1>1, <1>5 DEF Releases
<1> QED BY <1>2, <1>6 DEF Step

LEMMA WriteIsRelease ==
  ASSUME IInv, NEW C \in SUBSET Controllers
  PROVE  /\ Once(Completed(C)) \in [Resources -> Nat]
         /\ \A r \in Resources : Once(Completed(C))[r] > 0 => stage[r] = "live"
<1>1. \A r \in Completed(C) : stage[r] = "live"
  BY CompletedIsLive
<1> QED BY <1>1, OnceIsNumber DEF Once

LEMMA DisposeIsRelease == ASSUME IInv, Dispose PROVE Step
<1>1. current \in GStates /\ Release(References(current)) /\ UNCHANGED <<hash, bufferVars>>
  BY DEF Dispose
<1>2. References(current) \in [Resources -> Nat]
  BY <1>1, ReferencesAreNumbers
<1>3. ASSUME NEW r \in Resources, References(current)[r] > 0 PROVE stage[r] = "live"
  <2>1. RolesOf(current, r) # {}
    BY <1>3, FS_EmptySet DEF References
  <2>2. PICK role \in Roles : Holds(current, r, role)
    BY <2>1 DEF RolesOf
  <2> QED BY <1>1, <2>2, HeldIsLive
<1>4. Releases(References(current))
  BY <1>1, <1>3 DEF Releases, bufferVars
<1> QED BY <1>2, <1>4 DEF Step

\* A step gives up references of the current global state, or the one that a buffer
\* loses when it is written; or it allocates, saves, frees; or it does none of it.
LEMMA StepKinds == ASSUME IInv, [Next]_vars PROVE Step
<1>1. ASSUME NEW b \in Buffers, NEW c \in Controllers, Send(b, c) PROVE Step
  <2>1. /\ {c} \in SUBSET Controllers
        /\ {"active"} \in SUBSET Roles /\ {"active", "sent"} \in SUBSET Roles
    BY DEF Roles
  <2> QED BY <1>1, <2>1 DEF Send, Step
<1>2. ASSUME NEW b \in Buffers, NEW C \in SUBSET Controllers, EnterOperation(b, C) PROVE Step
  <2>1. {"operation"} \in SUBSET Roles
    BY DEF Roles
  <2> QED BY <1>2, <2>1 DEF EnterOperation, Step
<1>3. ASSUME NEW b \in Buffers, Match(b) PROVE Step
  BY <1>3 DEF Match, Step, Quiet, bufferVars
<1>4. ASSUME NEW b \in Buffers, CloseSend(b) PROVE Step
  BY <1>4, DropIsRelease DEF CloseSend, Resources, Roles
<1>5. ASSUME NEW b \in Buffers, FinishOperation(b) PROVE Step
  BY <1>5, DropIsRelease DEF FinishOperation, Resources, Roles
<1>6. ASSUME NEW b \in Buffers, NEW c \in Controllers, CloseReceive(b, c) PROVE Step
  BY <1>6, CloseReceiveIsRelease
<1>7. ASSUME NEW c \in Controllers, MakeBuffers(c) PROVE Step
  <2>1. {c} \in SUBSET Controllers
    OBVIOUS
  <2>2. Releases(Once(Completed({c})))
    BY <1>7, <2>1, WriteIsRelease DEF MakeBuffers, Releases
  <2> QED BY <2>1, <2>2, WriteIsRelease DEF Step
<1>8. ASSUME NEW c \in Controllers, Exit(c) PROVE Step
  BY <1>8 DEF Exit, Step, Quiet, bufferVars
<1>9. ASSUME NEW s \in VgStates, Restore(s) PROVE Step
  BY <1>9, DropIsRelease DEF Restore, Resources, Roles
<1>10. ASSUME NEW g \in GStates, Copy(g) \/ StartGContext(g) PROVE Step
  BY <1>10 DEF Copy, StartGContext, Step, Quiet, bufferVars
<1>11. ASSUME Dispose PROVE Step
  BY <1>11, DisposeIsRelease
<1>12. ASSUME UNCHANGED vars PROVE Step
  BY <1>12 DEF vars, bufferVars, Step, Quiet
<1> QED
  BY <1>1, <1>2, <1>3, <1>4, <1>5, <1>6, <1>7, <1>8, <1>9, <1>10, <1>11, <1>12 DEF Next, Step

-----------------------------------------------------------------------------
(* Each part is kept by each kind of step *)

LEMMA TotalNext ==
  ASSUME IInv, IInv', CInv, Step
  PROVE  TotalIsExact'
<1>a. TypeOK /\ TypeOK' /\ TotalIsExact
  BY DEF IInv, CInv
<1>1. ASSUME NEW drop \in [Resources -> Nat], Releases(drop) PROVE TotalIsExact'
  <2>1. \A r \in Resources : stage'[r] = "live" <=> (stage[r] = "live" /\ r \notin Dropped(drop))
    BY <1>1 DEF Releases, Release
  <2> QED BY <1>1, <2>1, <1>a, ReleaseTotals DEF Releases, Release
<1>2. ASSUME NEW r \in Resources, NEW m \in Managers, Manager(r) = m, stage[r] # "live",
             stage' = [stage EXCEPT ![r] = "live"], total' = [total EXCEPT ![m] = @ + 1]
      PROVE  TotalIsExact'
  <2> SUFFICES ASSUME NEW n \in Managers PROVE total'[n] = Cardinality(LiveOf(n)')
    BY DEF TotalIsExact
  <2>1. LiveOf(m)' = LiveOf(m) \cup {r} /\ r \notin LiveOf(m)
    BY <1>a, <1>2 DEF LiveOf, Manager, TypeOK
  <2>2. n # m => LiveOf(n)' = LiveOf(n)
    BY <1>a, <1>2 DEF LiveOf, Manager, TypeOK
  <2>3. IsFiniteSet(LiveOf(m))
    <3>1. LiveOf(m) \in SUBSET Resources
      BY DEF LiveOf
    <3> QED BY <3>1, ResourceAssumption, FS_Subset
  <2>4. Cardinality(LiveOf(m)') = Cardinality(LiveOf(m)) + 1
    BY <2>1, <2>3, FS_AddElement
  <2>5. total'[n] = IF n = m THEN total[n] + 1 ELSE total[n]
    BY <1>a, <1>2 DEF TypeOK
  <2> QED BY <2>2, <2>4, <2>5, <1>a DEF TotalIsExact
<1>3. ASSUME NEW b \in Buffers, NEW C \in SUBSET Controllers, NEW roles \in SUBSET Roles,
             NEW kind \in BOOLEAN, NewBuffer(b, C, roles, kind)
      PROVE  TotalIsExact'
  <2>1. b \in Resources /\ "buffers" \in Managers /\ Manager(b) = "buffers"
    BY DEF Resources, Managers, Manager
  <2> QED BY <1>2, <1>3, <2>1 DEF NewBuffer
<1>4. ASSUME NEW s \in VgStates
      PROVE  s \in Resources /\ Manager(s) = ControllerOf[s] /\ ControllerOf[s] \in Managers
  BY ResourceAssumption DEF Resources, Managers, Manager
<1>5. ASSUME \A r \in Resources : stage'[r] = "live" <=> stage[r] = "live", UNCHANGED total
      PROVE  TotalIsExact'
  <2>1. \A m \in Managers : LiveOf(m)' = LiveOf(m)
    BY <1>5 DEF LiveOf, Manager
  <2> QED BY <2>1, <1>5, <1>a DEF TotalIsExact
<1>6. ASSUME NEW c \in Controllers, NEW s \in VgStates, SaveCached(c, s) PROVE TotalIsExact'
  <2>1. /\ stage[s] \in {"live", "unused"} /\ ControllerOf[s] = c
        /\ stage' = [stage EXCEPT ![s] = "live"]
        /\ total' = [total EXCEPT ![c] = IF stage[s] = "unused" THEN @ + 1 ELSE @]
    BY <1>6 DEF SaveCached, Cached
  <2>2. CASE stage[s] = "unused"
    BY <2>1, <2>2, <1>2, <1>4
  <2>3. CASE stage[s] = "live"
    <3>1. total' = total /\ stage' = stage
      BY <2>1, <2>3, <1>a DEF TypeOK
    <3> QED BY <3>1, <1>5
  <2> QED BY <2>1, <2>2, <2>3
<1>7. ASSUME NEW c \in Controllers, NEW s \in VgStates, NEW h \in Hashes, SaveNew(c, s, h)
      PROVE  TotalIsExact'
  BY <1>7, <1>2, <1>4 DEF SaveNew
<1>8. CASE CleanupBuffers
  BY <1>8, <1>5 DEF CleanupBuffers
<1>9. CASE FinalCheck
  <2> DEFINE drop == Once(Completed(Controllers))
  <2>1. /\ drop \in [Resources -> Nat]
        /\ \A r \in Resources : drop[r] > 0 => stage[r] = "live"
    <3>1. Controllers \in SUBSET Controllers
      OBVIOUS
    <3> QED BY <3>1, WriteIsRelease
  <2>2. /\ total' = [m \in Managers |->
                       total[m] - Cardinality({r \in Dropped(drop) : Manager(r) = m})]
        /\ stage' = [r \in Resources |->
                       IF stage[r] = "unused" \/ r \in Dropped(drop) THEN "freed" ELSE stage[r]]
    BY <1>9 DEF FinalCheck
  <2> HIDE DEF drop
  <2>3. \A r \in Resources : stage'[r] = "live" <=> (stage[r] = "live" /\ r \notin Dropped(drop))
    BY <2>2
  <2> QED BY <2>1, <2>2, <2>3, <1>a, ReleaseTotals
<1>10. CASE Quiet
  BY <1>10, <1>5 DEF Quiet
<1> QED BY <1>1, <1>3, <1>6, <1>7, <1>8, <1>9, <1>10 DEF Step

\* Only save_state adds to the cache, and only what it has not found there.
LEMMA CacheNext ==
  ASSUME IInv, CInv, Step
  PROVE  CacheIsAFunction'
<1>a. TypeOK /\ CacheIsAFunction
  BY DEF IInv, CInv
<1>1. ASSUME \A s \in VgStates :
               stage'[s] \in {"live", "unused"} => stage[s] \in {"live", "unused"},
             UNCHANGED hash
      PROVE  CacheIsAFunction'
  <2> SUFFICES ASSUME NEW s \in VgStates, NEW t \in VgStates,
                      {stage'[s], stage'[t]} \subseteq {"live", "unused"},
                      ControllerOf[s] = ControllerOf[t], hash'[s] = hash'[t]
               PROVE  s = t
    BY DEF CacheIsAFunction
  <2>1. {stage[s], stage[t]} \subseteq {"live", "unused"}
    BY <1>1
  <2> QED BY <2>1, <1>1, <1>a DEF CacheIsAFunction
<1>b. ASSUME NEW s \in VgStates PROVE s \in Resources /\ s \notin Buffers
  BY ResourceAssumption DEF Resources
<1>2. ASSUME NEW drop \in [Resources -> Nat], Releases(drop) PROVE CacheIsAFunction'
  <2>1. ASSUME NEW r \in Resources, stage'[r] \in {"live", "unused"}
        PROVE  stage[r] \in {"live", "unused"}
    <3>1. stage'[r] = IF r \in Dropped(drop) THEN "unused" ELSE stage[r]
      BY <1>2 DEF Releases, Release
    <3>2. r \in Dropped(drop) => stage[r] = "live"
      BY <1>2 DEF Releases, Dropped
    <3> QED BY <3>1, <3>2, <2>1
  <2> QED BY <2>1, <1>1, <1>2, <1>b DEF Releases
<1>3. ASSUME NEW b \in Buffers, NEW C \in SUBSET Controllers, NEW roles \in SUBSET Roles,
             NEW kind \in BOOLEAN, NewBuffer(b, C, roles, kind)
      PROVE  CacheIsAFunction'
  BY <1>1, <1>3, <1>a, <1>b DEF NewBuffer, TypeOK
<1>4. ASSUME NEW c \in Controllers, NEW s \in VgStates, SaveCached(c, s)
      PROVE  CacheIsAFunction'
  BY <1>1, <1>4, <1>a, <1>b DEF SaveCached, Cached, TypeOK
<1>5. ASSUME NEW c \in Controllers, NEW s \in VgStates, NEW h \in Hashes, SaveNew(c, s, h)
      PROVE  CacheIsAFunction'
  <2>1. ASSUME NEW t \in VgStates
        PROVE  /\ t # s => stage'[t] = stage[t] /\ hash'[t] = hash[t]
               /\ hash'[s] = h
    BY <1>5, <1>a, <1>b DEF SaveNew, TypeOK
  <2>2. ASSUME NEW t \in VgStates, t # s, stage'[t] \in {"live", "unused"},
               ControllerOf[t] = ControllerOf[s]
        PROVE  hash'[t] # hash'[s]
    <3>1. t \notin Cached(c, h) /\ ControllerOf[s] = c
      BY <1>5 DEF SaveNew
    <3> QED BY <2>1, <2>2, <3>1 DEF Cached
  <2> SUFFICES ASSUME NEW t \in VgStates, NEW u \in VgStates,
                      {stage'[t], stage'[u]} \subseteq {"live", "unused"},
                      ControllerOf[t] = ControllerOf[u], hash'[t] = hash'[u]
               PROVE  t = u
    BY DEF CacheIsAFunction
  <2>3. CASE t # s /\ u # s
    <3>1. {stage[t], stage[u]} \subseteq {"live", "unused"} /\ hash[t] = hash[u]
      BY <2>1, <2>3
    <3> QED BY <3>1, <1>a DEF CacheIsAFunction
  <2>4. stage'[t] \in {"live", "unused"} /\ stage'[u] \in {"live", "unused"}
    OBVIOUS
  <2> QED BY <2>2, <2>3, <2>4
<1>6. CASE CleanupBuffers
  BY <1>1, <1>6, <1>b DEF CleanupBuffers
<1>7. CASE FinalCheck
  BY <1>1, <1>7, <1>b DEF FinalCheck
<1>8. CASE Quiet
  BY <1>1, <1>8 DEF Quiet
<1> QED BY <1>2, <1>3, <1>4, <1>5, <1>6, <1>7, <1>8 DEF Step

\* What is written has waited, and waits no more.
LEMMA WriteMoves ==
  ASSUME TypeOK, NEW C \in SUBSET Controllers, WriteBuffers(C), NEW b \in Buffers
  PROVE  /\ Waiting(b, Controllers)' = Waiting(b, Controllers) \ Waiting(b, C)
         /\ written'[b] = written[b] \cup Waiting(b, C)
         /\ Waiting(b, C) \subseteq Waiting(b, Controllers)
BY DEF WriteBuffers, TypeOK, Waiting

LEMMA BuffersNext ==
  ASSUME IInv, IInv', CInv, Step
  PROVE  BuffersReachTheirControllers' /\ NewIsUnwritten'
<1>a. /\ TypeOK /\ BuffersReachTheirControllers /\ NewIsUnwritten
      /\ \A b \in Buffers : remaining'[b] = Cardinality(Waiting(b, Controllers)')
  BY DEF IInv, CInv, RemainingIsExact
<1>b. ASSUME NEW b \in Buffers PROVE b \in Resources /\ b \notin VgStates
  BY ResourceAssumption DEF Resources
<1>1. ASSUME \A b \in Buffers : /\ stage'[b] = "new" => stage[b] = "new"
                                /\ stage'[b] \in {"live", "unused"} => stage[b] \in {"live", "unused"},
             UNCHANGED targets,
             \/ UNCHANGED <<toMake, written>>
             \/ \E C \in SUBSET Controllers : WriteBuffers(C)
      PROVE  BuffersReachTheirControllers' /\ NewIsUnwritten'
  <2>1. ASSUME NEW b \in Buffers
        PROVE  \E W \in SUBSET Waiting(b, Controllers) :
                 /\ Waiting(b, Controllers)' = Waiting(b, Controllers) \ W
                 /\ written'[b] = written[b] \cup W
    <3>1. CASE UNCHANGED <<toMake, written>>
      <4>1. Waiting(b, Controllers)' = Waiting(b, Controllers) \ {}
        BY <3>1 DEF Waiting
      <4>2. written'[b] = written[b] \cup {}
        BY <3>1
      <4> QED BY <4>1, <4>2
    <3>2. ASSUME NEW C \in SUBSET Controllers, WriteBuffers(C)
          PROVE  \E W \in SUBSET Waiting(b, Controllers) :
                   /\ Waiting(b, Controllers)' = Waiting(b, Controllers) \ W
                   /\ written'[b] = written[b] \cup W
      BY <3>2, <1>a, WriteMoves
    <3> QED BY <1>1, <3>1, <3>2
  <2>2. BuffersReachTheirControllers'
    <3> SUFFICES ASSUME NEW b \in Buffers, stage'[b] \in {"live", "unused"}
                 PROVE  /\ written'[b] \cup Waiting(b, Controllers)' = targets'[b]
                        /\ written'[b] \cap Waiting(b, Controllers)' = {}
                        /\ remaining'[b] = Cardinality(Waiting(b, Controllers)')
      BY DEF BuffersReachTheirControllers
    <3>1. /\ written[b] \cup Waiting(b, Controllers) = targets[b]
          /\ written[b] \cap Waiting(b, Controllers) = {}
      BY <1>1, <1>a DEF BuffersReachTheirControllers
    <3> QED BY <2>1, <3>1, <1>1, <1>a
  <2>3. NewIsUnwritten'
    <3> SUFFICES ASSUME NEW b \in Buffers, stage'[b] = "new" PROVE written'[b] = {}
      BY DEF NewIsUnwritten
    <3>1. stage[b] = "new" /\ written[b] = {}
      BY <1>1, <1>a DEF NewIsUnwritten
    <3>2. Waiting(b, Controllers) = {}
      BY <3>1, AwaitedIsLive
    <3> QED BY <2>1, <3>1, <3>2
  <2> QED BY <2>2, <2>3
<1>2. ASSUME NEW drop \in [Resources -> Nat], Releases(drop)
      PROVE  BuffersReachTheirControllers' /\ NewIsUnwritten'
  <2>1. ASSUME NEW b \in Buffers
        PROVE  /\ stage'[b] = "new" => stage[b] = "new"
               /\ stage'[b] \in {"live", "unused"} => stage[b] \in {"live", "unused"}
    <3>1. stage'[b] = IF b \in Dropped(drop) THEN "unused" ELSE stage[b]
      BY <1>2, <1>b DEF Releases, Release
    <3>2. b \in Dropped(drop) => stage[b] = "live"
      BY <1>2 DEF Releases, Dropped
    <3> QED BY <3>1, <3>2
  <2> QED BY <2>1, <1>1, <1>2 DEF Releases
<1>3. ASSUME NEW b \in Buffers, NEW C \in SUBSET Controllers, NEW roles \in SUBSET Roles,
             NEW kind \in BOOLEAN, NewBuffer(b, C, roles, kind)
      PROVE  BuffersReachTheirControllers' /\ NewIsUnwritten'
  <2>1. /\ stage[b] = "new" /\ stage' = [stage EXCEPT ![b] = "live"]
        /\ targets' = [targets EXCEPT ![b] = C] /\ UNCHANGED written
        /\ toMake' = [c \in Controllers |-> IF c \in C THEN toMake[c] \cup {b} ELSE toMake[c]]
    BY <1>3 DEF NewBuffer
  <2>2. written[b] = {} /\ Waiting(b, Controllers) = {}
    <3>1. written[b] = {}
      BY <2>1, <1>a DEF NewIsUnwritten
    <3>2. Waiting(b, Controllers) = {}
      BY <2>1, AwaitedIsLive
    <3> QED BY <3>1, <3>2
  <2>3. Waiting(b, Controllers)' = C
    BY <2>1, <2>2 DEF Waiting
  <2>4. \A q \in Buffers : q # b => Waiting(q, Controllers)' = Waiting(q, Controllers)
    BY <2>1 DEF Waiting
  <2>5. \A q \in Buffers : q # b => stage'[q] = stage[q] /\ targets'[q] = targets[q]
    BY <2>1, <1>a, <1>b DEF TypeOK
  <2>6. stage'[b] = "live" /\ targets'[b] = C
    BY <2>1, <1>a, <1>b DEF TypeOK
  <2>7. BuffersReachTheirControllers'
    <3> SUFFICES ASSUME NEW q \in Buffers, stage'[q] \in {"live", "unused"}
                 PROVE  /\ written'[q] \cup Waiting(q, Controllers)' = targets'[q]
                        /\ written'[q] \cap Waiting(q, Controllers)' = {}
                        /\ remaining'[q] = Cardinality(Waiting(q, Controllers)')
      BY DEF BuffersReachTheirControllers
    <3>1. CASE q = b
      BY <3>1, <2>1, <2>2, <2>3, <2>6, <1>a
    <3>2. CASE q # b
      BY <3>2, <2>1, <2>4, <2>5, <1>a DEF BuffersReachTheirControllers
    <3> QED BY <3>1, <3>2
  <2>8. NewIsUnwritten'
    BY <2>1, <2>5, <2>6, <1>a DEF NewIsUnwritten
  <2> QED BY <2>7, <2>8
<1>4. ASSUME NEW c \in Controllers, NEW s \in VgStates,
             SaveCached(c, s) \/ \E h \in Hashes : SaveNew(c, s, h)
      PROVE  BuffersReachTheirControllers' /\ NewIsUnwritten'
  <2>1. \A b \in Buffers : stage'[b] = stage[b]
    BY <1>4, <1>a, <1>b DEF SaveCached, SaveNew, TypeOK
  <2>2. UNCHANGED <<targets, toMake, written>>
    BY <1>4 DEF SaveCached, SaveNew, bufferVars
  <2> QED BY <2>1, <2>2, <1>1
<1>5. ASSUME CleanupBuffers PROVE BuffersReachTheirControllers' /\ NewIsUnwritten'
  <2>1. /\ \A b \in Buffers : stage'[b] = IF stage[b] = "unused" THEN "freed" ELSE stage[b]
        /\ \A b \in Buffers : written'[b] = IF stage[b] = "unused" THEN {} ELSE written[b]
        /\ UNCHANGED <<targets, toMake, remaining>>
    BY <1>5, <1>b DEF CleanupBuffers
  <2>2. \A b \in Buffers : Waiting(b, Controllers)' = Waiting(b, Controllers)
    BY <2>1 DEF Waiting
  <2>3. BuffersReachTheirControllers'
    <3> SUFFICES ASSUME NEW b \in Buffers, stage'[b] \in {"live", "unused"}
                 PROVE  /\ written'[b] \cup Waiting(b, Controllers)' = targets'[b]
                        /\ written'[b] \cap Waiting(b, Controllers)' = {}
                        /\ remaining'[b] = Cardinality(Waiting(b, Controllers)')
      BY DEF BuffersReachTheirControllers
    <3>1. stage[b] = "live" /\ written'[b] = written[b]
      BY <2>1
    <3> QED BY <3>1, <2>1, <2>2, <1>a DEF BuffersReachTheirControllers
  <2>4. NewIsUnwritten'
    BY <2>1, <1>a DEF NewIsUnwritten
  <2> QED BY <2>3, <2>4
<1>6. CASE FinalCheck
  <2>1. Controllers \in SUBSET Controllers /\ WriteBuffers(Controllers) /\ UNCHANGED targets
    BY <1>6 DEF FinalCheck
  <2>2. ASSUME NEW b \in Buffers PROVE stage'[b] = stage[b] \/ stage'[b] = "freed"
    BY <1>6, <1>b DEF FinalCheck
  <2> QED BY <2>1, <2>2, <1>1
<1>7. CASE Quiet
  BY <1>1, <1>7 DEF Quiet
<1> QED BY <1>2, <1>3, <1>4, <1>5, <1>6, <1>7 DEF Step

-----------------------------------------------------------------------------
(* final_check *)

\* Without global states only unwritten buffers are referred to, and they are
\* written: everything is freed.
LEMMA FinalCheckFrees ==
  ASSUME IInv, IInv', FinalCheck
  PROVE  CheckedIsOver'
<1> DEFINE drop == Once(Completed(Controllers))
<1>a. /\ current = NoGState /\ Alive = {} /\ UNCHANGED <<held, current>>
      /\ WriteBuffers(Controllers)
      /\ stage' = [r \in Resources |->
                     IF stage[r] = "unused" \/ r \in Dropped(drop) THEN "freed" ELSE stage[r]]
  BY DEF FinalCheck
<1>1. current' = NoGState /\ Alive' = {}
  BY <1>a DEF Alive
<1>2. \A c \in Controllers : toMake'[c] = {}
  BY <1>a DEF WriteBuffers
<1>3. ASSUME NEW r \in Resources PROVE stage'[r] # "live"
  <2>1. ASSUME NEW x \in Holders(r)' PROVE FALSE
    <3>1. x[1] \in GStates /\ <<r, x[2]>> \in held'[x[1]]
      BY <2>1 DEF Holders, Holds
    <3> QED BY <3>1, <1>1 DEF Alive
  <2>2. Pending(r)' = 0
    BY <1>2 DEF Pending, Waiting
  <2>3. ~(count'[r] > 0)
    <3>1. Holders(r)' = {} /\ Cardinality({}) = 0
      BY <2>1, FS_EmptySet
    <3>2. count'[r] = Cardinality(Holders(r)') + Pending(r)'
      BY DEF IInv, CountsAreExact
    <3> QED BY <3>1, <3>2, <2>2
  <2> QED BY <2>3 DEF IInv, LiveIsCounted
<1>4. ASSUME NEW r \in Resources PROVE stage'[r] \in {"new", "freed"}
  <2>1. stage'[r] = "freed" \/ (stage'[r] = stage[r] /\ stage[r] # "unused")
    BY <1>a
  <2>2. stage[r] \in {"new", "live", "unused", "freed"}
    BY DEF IInv, TypeOK
  <2> QED BY <2>1, <2>2, <1>3
<1> QED BY <1>1, <1>2, <1>4 DEF CheckedIsOver

\* No client runs, no global state is left to start, nothing is left to write.
LEMMA CheckedStops ==
  ASSUME IInv, CheckedIsOver, checked
  PROVE  ~Next
<1>1. current = NoGState /\ current \notin GStates /\ running = {}
  BY ResourceAssumption DEF CheckedIsOver, IInv, SavedIsNotRunning
<1>2. Alive = {} /\ \A r \in Resources : stage[r] # "unused"
  BY DEF CheckedIsOver
<1>3. \A b \in Buffers, c \in Controllers : ~Send(b, c) /\ ~CloseReceive(b, c)
  BY <1>1 DEF Send, NewBuffer, CloseReceive
<1>4. \A b \in Buffers, C \in SUBSET Controllers : ~EnterOperation(b, C)
  BY <1>1 DEF EnterOperation, NewBuffer
<1>5. \A b \in Buffers : ~Match(b) /\ ~CloseSend(b) /\ ~FinishOperation(b)
  BY <1>1 DEF Match, CloseSend, FinishOperation
<1>6. \A c \in Controllers : ~MakeBuffers(c) /\ ~Exit(c)
  BY <1>1 DEF MakeBuffers, Exit
<1>7. \A c \in Controllers, s \in VgStates :
        ~SaveCached(c, s) /\ \A h \in Hashes : ~SaveNew(c, s, h)
  BY <1>1 DEF SaveCached, SaveNew
<1>8. \A s \in VgStates : ~Restore(s)
  BY <1>1 DEF Restore
<1>9. \A g \in GStates : ~Copy(g) /\ ~StartGContext(g)
  BY <1>1, <1>2 DEF Copy, StartGContext
<1>10. ~Dispose /\ ~FinalCheck
  BY <1>1 DEF Dispose, FinalCheck
<1>11. ~CleanupBuffers
  BY <1>2 DEF CleanupBuffers, Resources
<1> QED BY <1>3, <1>4, <1>5, <1>6, <1>7, <1>8, <1>9, <1>10, <1>11 DEF Next

\* Only FinalCheck sets checked.
LEMMA CheckedNext ==
  ASSUME IInv, IInv', CInv, [Next]_vars
  PROVE  CheckedIsOver'
<1>1. CASE checked
  <2>1. UNCHANGED vars
    BY <1>1, CheckedStops DEF CInv
  <2> QED BY <2>1, <1>1 DEF vars, bufferVars, CInv, CheckedIsOver, Alive
<1>2. CASE ~checked /\ FinalCheck
  BY <1>2, FinalCheckFrees
<1>3. CASE ~checked /\ ~FinalCheck
  <2>1. checked' = checked
    BY <1>3 DEF Next, vars, Send, EnterOperation, NewBuffer, Match, CloseSend, CloseReceive,
                FinishOperation, MakeBuffers, Exit, SaveCached, SaveNew, Restore, Copy,
                StartGContext, Dispose, CleanupBuffers
  <2> QED BY <2>1, <1>3 DEF CheckedIsOver
<1> QED BY <1>1, <1>2, <1>3

-----------------------------------------------------------------------------
(* The theorems *)

LEMMA CInit == Init => CInv
<1> SUFFICES ASSUME Init PROVE CInv
  OBVIOUS
<1>1. \A m \in Managers : LiveOf(m) = {}
  BY DEF Init, LiveOf
<1>2. TotalIsExact
  BY <1>1, FS_EmptySet DEF Init, TotalIsExact
<1>3. \A r \in Resources : stage[r] = "new"
  BY DEF Init
<1>4. BuffersReachTheirControllers /\ CacheIsAFunction
  BY <1>3 DEF BuffersReachTheirControllers, CacheIsAFunction, Resources
<1>5. NewIsUnwritten /\ CheckedIsOver
  BY DEF Init, NewIsUnwritten, CheckedIsOver
<1> QED BY <1>2, <1>4, <1>5 DEF CInv

LEMMA CNext == IInv /\ IInv' /\ CInv /\ [Next]_vars => CInv'
<1> SUFFICES ASSUME IInv, IInv', CInv, [Next]_vars PROVE CInv'
  OBVIOUS
<1>1. Step
  BY StepKinds
<1> QED BY <1>1, TotalNext, CacheNext, BuffersNext, CheckedNext DEF CInv

LEMMA SpecCInv == Spec => [](IInv /\ CInv)
<1>1. Init => IInv /\ CInv
  BY InitInv, CInit
<1>2. IInv /\ CInv /\ [Next]_vars => (IInv /\ CInv)'
  BY NextInv, CNext
<1> QED BY <1>1, <1>2, PTL DEF Spec

\* VgBuffer.write_data reaches each controller that the buffer was made for exactly
\* once: those that have the buffer and those whose buffers_to_make it is in are
\* together the ones of make_buffer, and remaining_controllers counts the latter.
THEOREM BuffersReach == Spec => []BuffersReachTheirControllers
BY SpecCInv, PTL DEF CInv

\* state_cache of a controller (save_state) has one VgState for a hash: neither the
\* revival of an unused state nor the release of all its references breaks this.
THEOREM StateCacheIsAFunction == Spec => []CacheIsAFunction
BY SpecCInv, PTL DEF CInv

\* After before_final_check every resource that was ever allocated has been freed in
\* the clients and resource_count of every manager is 0, so that the comparison
\* that final_check makes cannot fail.
THEOREM NothingIsLeaked == Spec => []NothingLeaks
<1>1. IInv /\ CInv => NothingLeaks
  <2> SUFFICES ASSUME IInv, CInv, checked
               PROVE  /\ \A r \in Resources : stage[r] \in {"new", "freed"} /\ count[r] = 0
                      /\ \A m \in Managers : total[m] = 0
    BY DEF NothingLeaks
  <2>1. \A r \in Resources : stage[r] \in {"new", "freed"}
    BY DEF CInv, CheckedIsOver
  <2>2. ASSUME NEW r \in Resources PROVE count[r] = 0
    <3>1. count[r] >= 0 /\ count[r] \in Int
      BY ZeroMeansFree DEF IInv, TypeOK
    <3>2. ~(count[r] > 0)
      BY <2>1 DEF IInv, LiveIsCounted
    <3> QED BY <3>1, <3>2
  <2>3. \A m \in Managers : LiveOf(m) = {}
    BY <2>1 DEF LiveOf
  <2>4. \A m \in Managers : total[m] = 0
    BY <2>3, FS_EmptySet DEF CInv, TotalIsExact
  <2> QED BY <2>1, <2>2, <2>4
<1> QED BY <1>1, SpecCInv, PTL

=============================================================================
