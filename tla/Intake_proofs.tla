---------------------------- MODULE Intake_proofs ----------------------------
(***************************************************************************)
(* Proofs about Intake, for any number of endpoints, loaders, spawners and *)
(* consumers: nothing that is in the map can miss Pending.                 *)
(***************************************************************************)
EXTENDS Intake, TLAPS

LEMMA QueuedAppend ==
  ASSUME NEW S, NEW s \in Seq(S), NEW x \in S
  PROVE  /\ ToSet(Append(s, x)) = ToSet(s) \cup {x}
         /\ Append(s, x) \in Seq(S) /\ Append(s, x) # <<>>
<1>1. /\ Len(Append(s, x)) = Len(s) + 1 /\ Len(s) \in Nat
      /\ \A i \in 1..Len(s) : Append(s, x)[i] = s[i]
      /\ Append(s, x)[Len(s) + 1] = x
  OBVIOUS
<1>2. Append(s, x) \in Seq(S)
  OBVIOUS
<1>3. DOMAIN s = 1..Len(s) /\ DOMAIN Append(s, x) = 1..(Len(s) + 1)
  BY <1>1, <1>2
<1>4. ToSet(Append(s, x)) \subseteq ToSet(s) \cup {x}
  <2>. SUFFICES ASSUME NEW i \in 1..(Len(s) + 1) PROVE Append(s, x)[i] \in ToSet(s) \cup {x}
    BY <1>3 DEF ToSet
  <2>1. CASE i = Len(s) + 1
    BY <2>1, <1>1
  <2>2. CASE i # Len(s) + 1
    <3>1. i \in 1..Len(s)
      BY <2>2, <1>1
    <3>. QED
      BY <3>1, <1>1, <1>3 DEF ToSet
  <2>. QED
    BY <2>1, <2>2
<1>5. ToSet(s) \cup {x} \subseteq ToSet(Append(s, x))
  <2>1. ASSUME NEW i \in 1..Len(s) PROVE s[i] \in ToSet(Append(s, x))
    <3>1. i \in DOMAIN Append(s, x) /\ Append(s, x)[i] = s[i]
      BY <1>1, <1>3
    <3>. QED
      BY <3>1 DEF ToSet
  <2>2. x \in ToSet(Append(s, x))
    <3>1. Len(s) + 1 \in DOMAIN Append(s, x)
      BY <1>1, <1>3
    <3>. QED
      BY <3>1, <1>1 DEF ToSet
  <2>. QED
    BY <2>1, <2>2, <1>3 DEF ToSet
<1>6. Append(s, x) # <<>>
  BY <1>1, <1>2
<1>. QED
  BY <1>2, <1>4, <1>5, <1>6

\* What MoveToBack keeps.
LEMMA RotateKeeps ==
  ASSUME NEW S, NEW s \in Seq(S), s # <<>>
  PROVE  /\ Head(s) \in ToSet(s) /\ Head(s) \in S
         /\ Append(Tail(s), Head(s)) \in Seq(S)
         /\ Append(Tail(s), Head(s)) # <<>>
         /\ ToSet(Append(Tail(s), Head(s))) = ToSet(s)
<1>1. /\ Len(s) \in Nat \ {0} /\ DOMAIN s = 1..Len(s)
      /\ Head(s) = s[1] /\ Tail(s) \in Seq(S) /\ Len(Tail(s)) = Len(s) - 1
      /\ \A i \in 1..(Len(s) - 1) : Tail(s)[i] = s[i + 1]
  OBVIOUS
<1>2. Head(s) \in ToSet(s) /\ Head(s) \in S
  BY <1>1 DEF ToSet
<1>3. ToSet(s) \subseteq ToSet(Tail(s)) \cup {Head(s)}
  <2>. SUFFICES ASSUME NEW i \in 1..Len(s) PROVE s[i] \in ToSet(Tail(s)) \cup {Head(s)}
    BY <1>1 DEF ToSet
  <2>1. CASE i = 1
    BY <2>1, <1>1
  <2>2. CASE i # 1
    <3>1. /\ i - 1 \in 1..(Len(s) - 1) /\ (i - 1) + 1 = i
          /\ DOMAIN Tail(s) = 1..(Len(s) - 1)
      BY <2>2, <1>1
    <3>2. Tail(s)[i - 1] = s[i]
      BY <3>1, <1>1
    <3>. QED
      BY <3>1, <3>2 DEF ToSet
  <2>. QED
    BY <2>1, <2>2
<1>4. ToSet(Tail(s)) \subseteq ToSet(s)
  <2>. SUFFICES ASSUME NEW i \in 1..(Len(s) - 1) PROVE Tail(s)[i] \in ToSet(s)
    <3>1. DOMAIN Tail(s) = 1..(Len(s) - 1)
      BY <1>1
    <3>. QED
      BY <3>1 DEF ToSet
  <2>1. Tail(s)[i] = s[i + 1] /\ i + 1 \in DOMAIN s
    BY <1>1
  <2>. QED
    BY <2>1 DEF ToSet
<1>5. /\ ToSet(Append(Tail(s), Head(s))) = ToSet(Tail(s)) \cup {Head(s)}
      /\ Append(Tail(s), Head(s)) \in Seq(S) /\ Append(Tail(s), Head(s)) # <<>>
  BY <1>1, <1>2, QueuedAppend
<1>6. ToSet(Append(Tail(s), Head(s))) = ToSet(s)
  BY <1>2, <1>3, <1>4, <1>5
<1>. QED
  BY <1>2, <1>5, <1>6

-----------------------------------------------------------------------------
(* Types.                                                                  *)

LEMMA TypeInit == Init => TypeOK
<1>. SUFFICES ASSUME Init PROVE TypeOK
  OBVIOUS
<1>1. Pending \in Seq(Proxies) /\ Queued = {}
  BY DEF Init, Queued, ToSet
<1>2. \A t \in Recyclers : pc[t] \in {"look", "idle"} /\ recycleMu # t
  BY IntakeAssumption DEF IntakeAssumption, Init, Recyclers, Threads
<1>. QED
  BY <1>1, <1>2 DEF Init, TypeOK, Threads, Recyclers, Made

\* What most steps leave alone.
SameMap == plot' = plot /\ endpoint' = endpoint

LEMMA TypeStep == TypeOK /\ LoaderInv /\ FrontThere /\ [Next]_vars => TypeOK'
<1>. SUFFICES ASSUME TypeOK, LoaderInv, FrontThere, [Next]_vars PROVE TypeOK'
  OBVIOUS
<1>. USE IntakeAssumption DEF IntakeAssumption
<1>a. /\ Threads = Loaders \cup Recyclers /\ Recyclers = Spawners \cup Consumers
      /\ pc \in [Threads -> {"idle", "get", "queue", "look", "take", "submit",
                             "recycle", "check", "collect", "add"}]
  BY DEF TypeOK, Threads, Recyclers
<1>b. \A l \in Loaders : l \notin Recyclers
  BY <1>a
<1>c. \A t \in Recyclers : Back(t) \in {"look", "idle"}
  BY DEF Back
<1>1. ASSUME NEW l \in Loaders, NEW e \in Endpoints, LoadSet(l, e) PROVE TypeOK'
  <2>1. CASE plot[e] = NoProxy
    <3>1. PICK p \in Proxies \ Made :
            /\ plot' = [plot EXCEPT ![e] = p]
            /\ endpoint' = [endpoint EXCEPT ![p] = e]
            /\ sock' = [sock EXCEPT ![l] = p]
      BY <1>1, <2>1 DEF LoadSet
    <3>2. Made' = Made \cup {p}
      BY <3>1 DEF Made, TypeOK
    <3>3. \A f \in Endpoints : plot'[f] # NoProxy => endpoint'[plot'[f]] = f
      BY <3>1 DEF Made, TypeOK
    <3>. QED
      BY <1>1, <1>a, <1>b, <3>1, <3>2, <3>3
      DEF LoadSet, TypeOK, Goto, Queued, recycleVars
  <2>2. CASE plot[e] # NoProxy
    <3>1. plot[e] \in Made
      BY <2>2 DEF TypeOK, Made
    <3>2. SameMap /\ sock' = [sock EXCEPT ![l] = plot[e]]
      BY <1>1, <2>2 DEF LoadSet, SameMap
    <3>. QED
      BY <1>1, <1>a, <1>b, <3>1, <3>2
      DEF LoadSet, TypeOK, Goto, Queued, Made, SameMap, recycleVars
  <2>. QED
    BY <2>1, <2>2
<1>2. ASSUME NEW l \in Loaders, LoadGet(l) PROVE TypeOK'
  <2>1. sock[l] \in Made
    BY <1>2 DEF LoadGet, LoaderInv, TypeOK
  <2>2. plot[endpoint[sock[l]]] \in Made \cup {NoProxy}
    BY <2>1 DEF TypeOK, Made
  <2>. QED
    BY <1>2, <1>a, <1>b, <2>2
    DEF LoadGet, TypeOK, Goto, Queued, Made, mapVars, recycleVars
<1>3. ASSUME NEW l \in Loaders, LoadQueue(l) PROVE TypeOK'
  <2>1. sock[l] \in Made /\ sock[l] \in Proxies
    BY <1>3 DEF LoadQueue, LoaderInv, TypeOK, Made
  <2>2. Pending' \in Seq(Proxies) /\ Queued' = Queued \cup {sock[l]}
    BY <1>3, <2>1, QueuedAppend DEF LoadQueue, Queued, TypeOK
  <2>. QED
    BY <1>3, <1>a, <1>b, <2>1, <2>2
    DEF LoadQueue, TypeOK, Goto, Made, mapVars, recycleVars
<1>4. ASSUME NEW p \in Proxies, Delete(p) PROVE TypeOK'
  BY <1>4 DEF Delete, TypeOK, Queued, Made, recycleVars
<1>5. CASE ClearSOCKSList
  BY <1>5 DEF ClearSOCKSList, TypeOK, Queued, Made, recycleVars
<1>6. CASE Tick
  BY <1>6 DEF Tick, TypeOK, Queued, Made, mapVars
<1>7. ASSUME NEW b \in BOOLEAN, SetRecycling(b) PROVE TypeOK'
  BY <1>7 DEF SetRecycling, TypeOK, Queued, Made, mapVars, recycleVars
<1>8. ASSUME NEW t \in Recyclers, RecycleTry(t) PROVE TypeOK'
  <2>1. CASE recycleMu = NoHolder /\ recycleMu' = t /\ Goto(t, "check")
    BY <1>8, <1>a, <2>1 DEF RecycleTry, TypeOK, Goto, Queued, Made, mapVars
  <2>2. CASE Goto(t, Back(t)) /\ UNCHANGED recycleMu
    BY <1>8, <1>a, <1>c, <2>2 DEF RecycleTry, TypeOK, Goto, Queued, Made, mapVars
  <2>. QED
    BY <1>8, <2>1, <2>2 DEF RecycleTry
<1>9. ASSUME NEW t \in Recyclers, RecycleCheck(t) PROVE TypeOK'
  <2>1. CASE tick' = FALSE /\ Goto(t, "collect") /\ UNCHANGED recycleMu
    BY <1>9, <1>a, <2>1 DEF RecycleCheck, TypeOK, Goto, Queued, Made, mapVars
  <2>2. CASE Leave(t) /\ UNCHANGED tick
    BY <1>9, <1>a, <1>c, <2>2 DEF RecycleCheck, Leave, TypeOK, Goto, Queued, Made, mapVars
  <2>. QED
    BY <1>9, <2>1, <2>2 DEF RecycleCheck
<1>10. ASSUME NEW t \in Recyclers, RecycleCollect(t) PROVE TypeOK'
  <2>1. Mapped \subseteq Made
    BY DEF Mapped, Made, TypeOK
  <2>. QED
    BY <1>10, <1>a, <2>1 DEF RecycleCollect, TypeOK, Goto, Queued, Made, mapVars
<1>11. ASSUME NEW t \in Recyclers, RecycleAdd(t) PROVE TypeOK'
  <2>1. PICK p \in todo[t] : /\ Pending' = Append(Pending, p)
                             /\ todo' = [todo EXCEPT ![t] = @ \ {p}]
    BY <1>11 DEF RecycleAdd
  <2>2. p \in Made /\ p \in Proxies
    BY DEF TypeOK, Made
  <2>3. Pending' \in Seq(Proxies) /\ Queued' = Queued \cup {p}
    BY <2>1, <2>2, QueuedAppend DEF Queued, TypeOK
  <2>. QED
    BY <1>11, <1>a, <2>1, <2>2, <2>3 DEF RecycleAdd, TypeOK, Made, mapVars
<1>12. ASSUME NEW t \in Recyclers, RecycleDone(t) PROVE TypeOK'
  BY <1>12, <1>a, <1>c DEF RecycleDone, Leave, TypeOK, Goto, Queued, Made, mapVars
<1>13. ASSUME NEW s \in Spawners, Look(s) PROVE TypeOK'
  BY <1>13, <1>a DEF Look, TypeOK, Goto, Queued, Made, mapVars, recycleVars
<1>14. ASSUME NEW s \in Spawners, Take(s) PROVE TypeOK'
  <2>1. CASE recycle
    <3>1. Pending # <<>>
      BY <1>14 DEF Take, FrontThere
    <3>2. /\ Pending \in Seq(Proxies)
          /\ Pending' = Append(Tail(Pending), Head(Pending))
          /\ sock' = [sock EXCEPT ![s] = Head(Pending)]
      BY <1>14, <2>1 DEF Take, TypeOK
    <3>3. Pending' \in Seq(Proxies) /\ Queued' = Queued /\ Head(Pending) \in Queued
      BY <3>1, <3>2, RotateKeeps DEF Queued
    <3>4. Made' = Made /\ Queued' \subseteq Made
      BY <1>14, <3>3 DEF Take, TypeOK, Made, mapVars
    <3>5. sock' \in [Loaders \cup Spawners -> Made \cup {NoProxy}]
      BY <3>2, <3>3 DEF TypeOK
    <3>. QED
      BY <1>14, <1>a, <3>3, <3>4, <3>5 DEF Take, TypeOK, Goto, mapVars, recycleVars
  <2>2. CASE ~recycle
    BY <1>14, <1>a, <2>2 DEF Take, TypeOK, Goto, Queued, Made, mapVars, recycleVars
  <2>. QED
    BY <2>1, <2>2
<1>15. ASSUME NEW s \in Spawners, Submit(s) PROVE TypeOK'
  BY <1>15, <1>a DEF Submit, TypeOK, Goto, Queued, Made, mapVars, recycleVars
<1>16. CASE UNCHANGED vars
  BY <1>16 DEF vars, TypeOK, Queued, Made, mapVars, recycleVars
<1>. QED
  BY <1>1, <1>2, <1>3, <1>4, <1>5, <1>6, <1>7, <1>8, <1>9, <1>10, <1>11, <1>12,
     <1>13, <1>14, <1>15, <1>16, <1>a
  DEF Next, loadSingleProxy, jobSpawner, recycling
-----------------------------------------------------------------------------
(* Nothing that is in the map can miss Pending.                            *)

\* No step empties Pending, forgets what is on it, or takes a thread to
\* another place than its own.
LEMMA PendingKept ==
  ASSUME TypeOK, LoaderInv, FrontThere, [Next]_vars
  PROVE  Queued \subseteq Queued' /\ (Pending # <<>> => Pending' # <<>>)
<1>. USE DEF TypeOK
<1>1. ASSUME NEW l \in Loaders, LoadQueue(l) PROVE Queued \subseteq Queued' /\ Pending' # <<>>
  <2>1. sock[l] \in Proxies /\ Pending' = Append(Pending, sock[l])
    BY <1>1 DEF LoadQueue, LoaderInv, Made
  <2>. QED
    BY <2>1, QueuedAppend DEF Queued
<1>2. ASSUME NEW t \in Recyclers, RecycleAdd(t) PROVE Queued \subseteq Queued' /\ Pending' # <<>>
  <2>1. PICK p \in todo[t] : Pending' = Append(Pending, p)
    BY <1>2 DEF RecycleAdd
  <2>2. p \in Proxies
    BY DEF Made
  <2>. QED
    BY <2>1, <2>2, QueuedAppend DEF Queued
<1>3. ASSUME NEW s \in Spawners, Take(s) PROVE Queued \subseteq Queued' /\ Pending' # <<>>
  <2>1. Pending # <<>>
    BY <1>3 DEF Take, FrontThere
  <2>2. Pending' = Pending \/ Pending' = Append(Tail(Pending), Head(Pending))
    BY <1>3 DEF Take
  <2>. QED
    BY <2>1, <2>2, RotateKeeps DEF Queued
<1>4. CASE Pending' = Pending
  BY <1>4 DEF Queued
<1>5. \/ Pending' = Pending
      \/ \E l \in Loaders : LoadQueue(l)
      \/ \E t \in Recyclers : RecycleAdd(t)
      \/ \E s \in Spawners : Take(s)
  BY DEF Next, loadSingleProxy, jobSpawner, recycling, Recyclers, LoadSet, LoadGet,
         Delete, ClearSOCKSList, Tick, SetRecycling, RecycleTry, RecycleCheck,
         RecycleCollect, RecycleDone, Look, Submit, vars, mapVars, recycleVars
<1>. QED
  BY <1>1, <1>2, <1>3, <1>4, <1>5

LEMMA LoaderStep == TypeOK /\ LoaderInv /\ [Next]_vars => LoaderInv'
<1>. SUFFICES ASSUME TypeOK, LoaderInv, [Next]_vars PROVE LoaderInv'
  OBVIOUS
<1>. USE IntakeAssumption DEF IntakeAssumption
<1>a. /\ pc \in [Threads -> {"idle", "get", "queue", "look", "take", "submit",
                             "recycle", "check", "collect", "add"}]
      /\ Threads = Loaders \cup Spawners \cup Consumers
      /\ Recyclers = Spawners \cup Consumers
      /\ sock \in [Loaders \cup Spawners -> Made \cup {NoProxy}]
      /\ NoProxy \notin Made
  BY DEF TypeOK, Threads, Recyclers, Made
<1>1. ASSUME NEW l \in Loaders, NEW e \in Endpoints, LoadSet(l, e) PROVE LoaderInv'
  <2>1. PICK p \in Proxies : sock' = [sock EXCEPT ![l] = p]
    BY <1>1 DEF LoadSet, TypeOK
  <2>. QED
    BY <1>1, <1>a, <2>1 DEF LoadSet, LoaderInv, Goto
<1>2. ASSUME NEW l \in Loaders, LoadGet(l) PROVE LoaderInv'
  BY <1>2, <1>a DEF LoadGet, LoaderInv, Goto
<1>3. ASSUME NEW l \in Loaders, LoadQueue(l) PROVE LoaderInv'
  BY <1>3, <1>a DEF LoadQueue, LoaderInv, Goto
<1>4. ASSUME NEW t \in Recyclers, RecycleTry(t) \/ recycling(t) PROVE LoaderInv'
  <2>1. sock' = sock /\ \E l : pc' = [pc EXCEPT ![t] = l] \/ pc' = pc
    BY <1>4 DEF RecycleTry, recycling, RecycleCheck, RecycleCollect, RecycleAdd,
               RecycleDone, Goto, Leave
  <2>. QED
    BY <1>a, <2>1 DEF LoaderInv
<1>5. ASSUME NEW s \in Spawners, Look(s) \/ Take(s) \/ Submit(s) PROVE LoaderInv'
  <2>1. /\ \E p : sock' = [sock EXCEPT ![s] = p] \/ sock' = sock
        /\ \E l : pc' = [pc EXCEPT ![s] = l]
    BY <1>5 DEF Look, Take, Submit, Goto
  <2>. QED
    BY <1>a, <2>1 DEF LoaderInv
<1>6. CASE \/ \E p \in Proxies : Delete(p)
           \/ ClearSOCKSList \/ Tick \/ \E b \in BOOLEAN : SetRecycling(b)
           \/ UNCHANGED vars
  BY <1>6 DEF Delete, ClearSOCKSList, Tick, SetRecycling, vars, LoaderInv
<1>. QED
  BY <1>1, <1>2, <1>3, <1>4, <1>5, <1>6, <1>a DEF Next, loadSingleProxy, jobSpawner

LEMMA FrontStep == TypeOK /\ LoaderInv /\ FrontThere /\ [Next]_vars => FrontThere'
<1>. SUFFICES ASSUME TypeOK, LoaderInv, FrontThere, [Next]_vars,
                     NEW s \in Spawners, pc'[s] = "take"
              PROVE  Pending' # <<>>
  BY DEF FrontThere
<1>1. CASE Pending # <<>>
  BY <1>1, PendingKept
<1>2. CASE pc[s] # "take"
  <2>1. Look(s)
    BY <1>2, IntakeAssumption
    DEF IntakeAssumption, TypeOK, Threads, Recyclers, Next, loadSingleProxy, jobSpawner,
        recycling, LoadSet, LoadGet, LoadQueue, Delete, ClearSOCKSList, Tick,
        SetRecycling, RecycleTry, RecycleCheck, RecycleCollect, RecycleAdd, RecycleDone,
        Look, Take, Submit, Goto, Leave, Back, vars
  <2>2. Pending # <<>>
    BY <1>2, <2>1 DEF Look, Goto, TypeOK, Threads, Recyclers
  <2>. QED
    BY <2>2, PendingKept
<1>. QED
  BY <1>1, <1>2 DEF FrontThere

LEMMA QueuedStep ==
  TypeOK /\ LoaderInv /\ FrontThere /\ MappedQueued /\ [Next]_vars => MappedQueued'
<1>. SUFFICES ASSUME TypeOK, LoaderInv, FrontThere, MappedQueued, [Next]_vars
              PROVE  MappedQueued'
  OBVIOUS
<1>. USE IntakeAssumption DEF IntakeAssumption
<1>a. /\ sock \in [Loaders \cup Spawners -> Made \cup {NoProxy}]
      /\ plot \in [Endpoints -> Proxies \cup {NoProxy}]
      /\ NoProxy \notin Made
  BY DEF TypeOK, Made
<1>b. Queued \subseteq Queued'
  BY PendingKept
<1>1. ASSUME NEW l \in Loaders, NEW e \in Endpoints, LoadSet(l, e) PROVE MappedQueued'
  <2>1. pc[l] = "idle" /\ sock[l] = NoProxy
    BY <1>1 DEF LoadSet, LoaderInv
  <2>2. PICK p : sock' = [sock EXCEPT ![l] = p] /\ Mapped' \subseteq Mapped \cup {p}
    BY <1>1, <1>a DEF LoadSet, Mapped
  <2>. QED
    BY <1>a, <1>b, <2>1, <2>2 DEF MappedQueued, Mapped
<1>2. ASSUME NEW l \in Loaders, LoadGet(l) PROVE MappedQueued'
  <2>1. Mapped' = Mapped
    BY <1>2 DEF LoadGet, Mapped, mapVars
  <2>2. sock[l] \in Mapped => sock' = sock
    <3>1. sock[l] \in Mapped => plot[endpoint[sock[l]]] = sock[l]
      BY DEF Mapped, TypeOK
    <3>. QED
      BY <1>2, <1>a, <3>1 DEF LoadGet
  <2>. QED
    BY <1>2, <1>a, <1>b, <2>1, <2>2 DEF LoadGet, MappedQueued
<1>3. ASSUME NEW l \in Loaders, LoadQueue(l) PROVE MappedQueued'
  <2>1. sock[l] \in Proxies /\ Pending' = Append(Pending, sock[l])
    BY <1>3 DEF LoadQueue, LoaderInv, TypeOK, Made
  <2>2. sock[l] \in Queued'
    BY <2>1, QueuedAppend DEF TypeOK, Queued
  <2>3. Mapped' = Mapped /\ sock' = [sock EXCEPT ![l] = NoProxy]
    BY <1>3 DEF LoadQueue, Mapped, mapVars
  <2>. QED
    BY <1>a, <1>b, <2>2, <2>3 DEF MappedQueued
<1>4. CASE (\E p \in Proxies : Delete(p)) \/ ClearSOCKSList
  <2>1. Mapped' \subseteq Mapped /\ sock' = sock
    BY <1>4, <1>a DEF Delete, ClearSOCKSList, Mapped
  <2>. QED
    BY <1>b, <2>1 DEF MappedQueued
<1>5. ASSUME Mapped' = Mapped, \A l \in Loaders : sock'[l] = sock[l] PROVE MappedQueued'
  BY <1>b, <1>5 DEF MappedQueued
<1>6. ASSUME NEW t \in Recyclers, RecycleTry(t) \/ recycling(t) PROVE MappedQueued'
  BY <1>5, <1>6 DEF Mapped, RecycleTry, recycling, RecycleCheck, RecycleCollect,
                   RecycleAdd, RecycleDone, mapVars
<1>7. ASSUME NEW s \in Spawners, Look(s) \/ Take(s) \/ Submit(s) PROVE MappedQueued'
  BY <1>5, <1>7, <1>a DEF Mapped, Look, Take, Submit, mapVars
<1>8. CASE Tick \/ (\E b \in BOOLEAN : SetRecycling(b)) \/ UNCHANGED vars
  BY <1>5, <1>8 DEF Mapped, Tick, SetRecycling, vars, mapVars
<1>. QED
  BY <1>1, <1>2, <1>3, <1>4, <1>6, <1>7, <1>8
  DEF Next, loadSingleProxy, jobSpawner, Recyclers

IInv == TypeOK /\ LoaderInv /\ FrontThere /\ MappedQueued

LEMMA InitInv == Init => IInv
<1>. SUFFICES ASSUME Init PROVE IInv
  OBVIOUS
<1>1. /\ \A l \in Loaders : pc[l] = "idle" /\ sock[l] = NoProxy
      /\ \A s \in Spawners : pc[s] = "look"
      /\ Mapped = {}
  BY IntakeAssumption DEF IntakeAssumption, Init, Threads, Recyclers, Mapped
<1>. QED
  BY <1>1, TypeInit DEF IInv, LoaderInv, FrontThere, MappedQueued

LEMMA Invariance == Spec => []IInv
<1>1. IInv /\ [Next]_vars => IInv'
  BY TypeStep, LoaderStep, FrontStep, QueuedStep DEF IInv
<1>. QED
  BY InitInv, <1>1, PTL DEF Spec

\* Every variable keeps its type; a proxy of the map is there under its own
\* endpoint, and recycleMu is held by the one that is in recycling.
THEOREM TypeCorrect == Spec => []TypeOK
BY Invariance, PTL DEF IInv

\* Whatever is loaded, removed, cleared and recycled between a spawner's two
\* looks at Pending, there is a front for it to take.
THEOREM FrontIsThere == Spec => []FrontThere
BY Invariance, PTL DEF IInv

\* No proxy is in the map without being on Pending or on its way there.
THEOREM MappedAreQueued == Spec => []MappedQueued
BY Invariance, PTL DEF IInv
=============================================================================
