-------------------------- MODULE Telemetry_proofs --------------------------
(***************************************************************************)
(* Proofs about Telemetry for any number of threads, names and operations. *)
(***************************************************************************)
EXTENDS Telemetry, TLAPS

Using == {"indexed", "loaded"}

(* The mutex of a class is held by whoever runs make_or_get for it. *)
MutexHeld ==
    \A t \in Thread : pc[t] \in {"find", "emplace"} => mutex[handle[t].class] = t

Emplacing(k, n) ==
    \E t \in Thread : pc[t] = "emplace" /\ handle[t].class = k /\ handle[t].name = n

(* An id without a cell belongs to a name whose cell is being made, or whose *)
(* emplace_back threw.                                                       *)
IdsAccounted ==
    \A k \in Class : \A n \in DOMAIN ids[k] :
        \/ ids[k][n] < Len(cells[k])
        \/ ids[k][n] = Len(cells[k]) /\ (n \in failed[k] \/ Emplacing(k, n))

(* A handle has the id that its name has. *)
HandlesKnown ==
    \A t \in Thread : pc[t] \notin {"new", "find", "gone"} =>
        /\ handle[t].name \in DOMAIN ids[handle[t].class]
        /\ handle[t].id = ids[handle[t].class][handle[t].name]

(* A cell is made at the end of the vector, for a name that has not failed. *)
EmplacersLast ==
    \A t \in Thread : pc[t] = "emplace" =>
        /\ handle[t].id = Len(cells[handle[t].class])
        /\ handle[t].name \notin failed[handle[t].class]

(* A name that failed has an id. *)
FailedKnown == \A k \in Class : failed[k] \subseteq DOMAIN ids[k]

(* Whoever has a handle has a cell for it, or its registration threw. *)
HandlesBacked ==
    \A t \in Thread : pc[t] \in {"ready", "addressed"} =>
        \/ handle[t].id < Len(cells[handle[t].class])
        \/ /\ handle[t].id = Len(cells[handle[t].class])
           /\ handle[t].name \in failed[handle[t].class]

(* A handle in use has its cell. *)
UsersIndexed ==
    \A t \in Thread :
        /\ pc[t] \in Using \cup {"addressed"} => ops[t] < MaxOps
        /\ pc[t] \in Using => handle[t].id < Len(cells[handle[t].class])

(* Another name has a cell at or behind the handle's. *)
Outrun(t) ==
    \E n \in DOMAIN ids[handle[t].class] \ {handle[t].name} :
        ids[handle[t].class][n] >= handle[t].id

(* Storage that has moved since its address was read, or was found to have. *)
MovedAway ==
    \A t \in Thread :
        pc[t] = "stale" \/ (pc[t] = "addressed" /\ ~ InPlace(t)) => Outrun(t)

TelemetryInv ==
    /\ TypeOK
    /\ DOMAIN ids = Class
    /\ MutexHeld
    /\ IdsAccounted
    /\ HandlesKnown
    /\ EmplacersLast
    /\ FailedKnown
    /\ HandlesBacked
    /\ UsersIndexed
    /\ MovedAway
    /\ NamesOwnTheirCells
    /\ UndefinedOnlyAfterFailure
    /\ NoLostUpdate

(* Both registries start empty and no thread has a handle. *)
LEMMA InitTelemetry == Init => TelemetryInv
<1> SUFFICES ASSUME Init
             PROVE  TelemetryInv
  OBVIOUS
<1>1. \A k \in Class : DOMAIN ids[k] = {} /\ ids[k] \in [{} -> Nat] /\ failed[k] = {}
  BY DEF Init
<1>2. TypeOK
  BY <1>1, TelemetryAssumption DEF Init, TypeOK, Handle, Label
<1>3. DOMAIN ids = Class
  BY DEF Init
<1>4. \A t \in Thread : pc[t] = "new"
  BY DEF Init
<1>5. MutexHeld /\ HandlesKnown /\ EmplacersLast /\ HandlesBacked /\ UsersIndexed
      /\ MovedAway /\ UndefinedOnlyAfterFailure
  BY <1>4 DEF MutexHeld, HandlesKnown, EmplacersLast, HandlesBacked, UsersIndexed, MovedAway,
              UndefinedOnlyAfterFailure, Using
<1>6. IdsAccounted /\ FailedKnown /\ NamesOwnTheirCells
  BY <1>1 DEF IdsAccounted, FailedKnown, NamesOwnTheirCells
<1>7. NoLostUpdate
  BY DEF Init, NoLostUpdate
<1> QED
  BY <1>2, <1>3, <1>5, <1>6, <1>7 DEF TelemetryInv

(* Threads other than t keep what they had, when the names known so far keep *)
(* their ids, the cells stay or grow, and the storage stays.                 *)
LEMMA OthersKept ==
  ASSUME TelemetryInv, NEW t \in Thread,
         UNCHANGED <<cells, storage, address, ops>>,
         \A s \in Thread : s # t => handle'[s] = handle[s] /\ pc'[s] = pc[s],
         pc'[t] \in {"find", "emplace", "gone"},
         \A k \in Class : /\ DOMAIN ids[k] \subseteq DOMAIN ids'[k]
                          /\ \A n \in DOMAIN ids[k] : ids'[k][n] = ids[k][n]
                          /\ failed[k] \subseteq failed'[k]
  PROVE  HandlesBacked' /\ UsersIndexed' /\ MovedAway' /\ UndefinedOnlyAfterFailure'
<1> USE DEF TelemetryInv
<1>0. \A s \in Thread : handle[s].class \in Class
  BY DEF TypeOK, Handle
<1>1. HandlesBacked'
  BY <1>0 DEF HandlesBacked
<1>2. UsersIndexed'
  BY DEF UsersIndexed, Using
<1>3. ASSUME NEW s \in Thread, s # t, Outrun(s)
      PROVE  Outrun(s)'
  BY <1>0, <1>3 DEF Outrun
<1>4. MovedAway'
  BY <1>3 DEF MovedAway, InPlace
<1>5. UndefinedOnlyAfterFailure'
  BY <1>0 DEF UndefinedOnlyAfterFailure
<1> QED
  BY <1>1, <1>2, <1>4, <1>5

(* std::lock_guard: the mutex was free, so nobody else runs make_or_get. *)
LEMMA LockKeeps ==
  ASSUME TelemetryInv, NEW t \in Thread, Lock(t)
  PROVE  TelemetryInv'
<1> USE DEF TelemetryInv
<1> DEFINE k == handle[t].class
<1>1. k \in Class
  BY DEF TypeOK, Handle
<1>2. TypeOK' /\ (DOMAIN ids = Class)'
  BY <1>1 DEF Lock, TypeOK, Goto, Label
<1>3. MutexHeld'
  BY <1>1, TelemetryAssumption DEF Lock, Goto, MutexHeld, TypeOK, Handle
<1>4. /\ pc[t] = "new" /\ pc'[t] = "find"
      /\ \A s \in Thread : s # t => handle'[s] = handle[s] /\ pc'[s] = pc[s]
      /\ UNCHANGED <<ids, cells, storage, failed, history, handle, address, ops>>
  BY DEF Lock, Goto, TypeOK
<1>5. IdsAccounted'
  BY <1>4 DEF IdsAccounted, Emplacing
<1>6. HandlesKnown' /\ EmplacersLast' /\ FailedKnown'
  BY <1>4 DEF HandlesKnown, EmplacersLast, FailedKnown
<1>7. HandlesBacked' /\ UsersIndexed' /\ MovedAway' /\ UndefinedOnlyAfterFailure'
  BY <1>4, OthersKept
<1>8. NamesOwnTheirCells' /\ NoLostUpdate'
  BY <1>4 DEF NamesOwnTheirCells, NoLostUpdate
<1> QED
  BY <1>2, <1>3, <1>5, <1>6, <1>7, <1>8

(* A known name: its id is the one in the map, and nobody makes a cell.      *)
LEMMA FoundKeeps ==
  ASSUME TelemetryInv, NEW t \in Thread, Found(t)
  PROVE  TelemetryInv'
<1> USE DEF TelemetryInv
<1> DEFINE k == handle[t].class
           n == handle[t].name
<1>1. /\ k \in Class /\ n \in Name /\ n \in DOMAIN ids[k] /\ ids[k][n] \in Nat
      /\ handle[t] \in Handle /\ Len(cells[k]) \in Nat
      /\ UNCHANGED <<ids, cells, storage, failed, history, address, by, current, ops>>
  BY DEF Found, TypeOK, Handle
<1>2. TypeOK' /\ (DOMAIN ids = Class)'
  BY <1>1, TelemetryAssumption DEF Found, TypeOK, Goto, Handle, Label
<1>3. \A s \in Thread : /\ handle'[s].class = handle[s].class
                        /\ handle'[s].name = handle[s].name
                        /\ s # t => handle'[s] = handle[s] /\ pc'[s] = pc[s]
  BY <1>1 DEF Found, Goto, TypeOK, Handle
<1>4. pc'[t] = "ready" /\ handle'[t].id = ids[k][n] /\ pc[t] = "find"
  BY <1>1 DEF Found, Goto, TypeOK, Handle
<1>5. \A s \in Thread : s # t /\ pc[s] \in {"find", "emplace"} => handle[s].class # k
  BY <1>4 DEF MutexHeld
<1>6. MutexHeld'
  BY <1>1, <1>3, <1>4, <1>5 DEF Found, MutexHeld, TypeOK
<1>7. IdsAccounted'
  BY <1>1, <1>3, <1>4 DEF IdsAccounted, Emplacing
<1>8. HandlesKnown' /\ EmplacersLast' /\ FailedKnown'
  BY <1>1, <1>3, <1>4 DEF HandlesKnown, EmplacersLast, FailedKnown
<1>9. ids[k][n] < Len(cells[k]) \/ (ids[k][n] = Len(cells[k]) /\ n \in failed[k])
  <2>1. ~ Emplacing(k, n)
    BY <1>4, <1>5 DEF Emplacing
  <2> HIDE DEF k, n
  <2> QED
    BY <1>1, <2>1 DEF IdsAccounted
<1>10. HandlesBacked'
  BY <1>1, <1>3, <1>4, <1>9 DEF HandlesBacked
<1>11. UsersIndexed'
  BY <1>1, <1>3, <1>4 DEF UsersIndexed, Using
<1>12. MovedAway'
  BY <1>1, <1>3, <1>4 DEF MovedAway, InPlace, Outrun
<1>13. NamesOwnTheirCells' /\ NoLostUpdate'
  BY <1>1 DEF NamesOwnTheirCells, NoLostUpdate
<1>14. UndefinedOnlyAfterFailure'
  BY <1>1, <1>3, <1>4 DEF UndefinedOnlyAfterFailure
<1> QED
  BY <1>2, <1>6, <1>7, <1>8, <1>10, <1>11, <1>12, <1>13, <1>14

(* The name cannot be entered in the map: nothing has changed but the mutex. *)
LEMMA NewIdThrowsKeeps ==
  ASSUME TelemetryInv, NEW t \in Thread, NewIdThrows(t)
  PROVE  TelemetryInv'
<1> USE DEF TelemetryInv
<1> DEFINE k == handle[t].class
<1>1. k \in Class
  BY DEF TypeOK, Handle
<1>2. TypeOK' /\ (DOMAIN ids = Class)'
  BY <1>1 DEF NewIdThrows, TypeOK, Goto, Label
<1>3. /\ pc[t] = "find" /\ pc'[t] = "gone"
      /\ \A s \in Thread : s # t => handle'[s] = handle[s] /\ pc'[s] = pc[s]
      /\ UNCHANGED <<ids, cells, storage, failed, history, handle, address, ops>>
  BY DEF NewIdThrows, Goto, TypeOK
<1>4. \A s \in Thread : s # t /\ pc[s] \in {"find", "emplace"} => handle[s].class # k
  BY <1>3 DEF MutexHeld
<1>5. MutexHeld'
  BY <1>1, <1>3, <1>4 DEF NewIdThrows, MutexHeld, TypeOK, Handle
<1>6. IdsAccounted'
  BY <1>3 DEF IdsAccounted, Emplacing
<1>7. HandlesKnown' /\ EmplacersLast' /\ FailedKnown'
  BY <1>3 DEF HandlesKnown, EmplacersLast, FailedKnown
<1>8. HandlesBacked' /\ UsersIndexed' /\ MovedAway' /\ UndefinedOnlyAfterFailure'
  BY <1>3, OthersKept
<1>9. NamesOwnTheirCells' /\ NoLostUpdate'
  BY <1>3 DEF NamesOwnTheirCells, NoLostUpdate
<1> QED
  BY <1>2, <1>5, <1>6, <1>7, <1>8, <1>9

(* The id is taken under the mutex: no cell is being made, so no name whose  *)
(* registration did not throw has it already.                                *)
LEMMA NewIdKeeps ==
  ASSUME TelemetryInv, NEW t \in Thread, NewId(t)
  PROVE  TelemetryInv'
<1> USE DEF TelemetryInv
<1> DEFINE k == handle[t].class
           n == handle[t].name
           id == Len(cells[k])
<1>1. k \in Class /\ n \in Name /\ handle[t] \in Handle /\ n \notin DOMAIN ids[k]
  BY DEF NewId, TypeOK, Handle
<1>2. id \in Nat
  BY <1>1 DEF TypeOK
<1>3. \A s \in Thread : /\ handle'[s].class = handle[s].class
                        /\ handle'[s].name = handle[s].name
                        /\ s # t => handle'[s] = handle[s] /\ pc'[s] = pc[s]
  BY <1>1 DEF NewId, Goto, TypeOK, Handle
<1>4. pc[t] = "find" /\ pc'[t] = "emplace" /\ handle'[t].id = id
  BY <1>1 DEF NewId, Goto, TypeOK, Handle
<1>5. /\ \A j \in Class : j # k => ids'[j] = ids[j]
      /\ DOMAIN ids'[k] = DOMAIN ids[k] \cup {n}
      /\ ids'[k][n] = id
      /\ \A m \in DOMAIN ids[k] : ids'[k][m] = ids[k][m]
      /\ DOMAIN ids' = Class
  BY <1>1 DEF NewId, Put
<1>6. ids'[k] \in [DOMAIN ids'[k] -> Nat] /\ DOMAIN ids'[k] \subseteq Name
  BY <1>1, <1>2 DEF NewId, Put, TypeOK
<1>7. \A s \in Thread : pc[s] = "emplace" => handle[s].class # k
  BY <1>4 DEF MutexHeld
<1>8. TypeOK'
  <2>1. handle' \in [Thread -> Handle] /\ pc' \in [Thread -> Label]
    BY <1>1, <1>2 DEF NewId, Goto, TypeOK, Handle, Label
  <2>2. \A j \in Class : /\ DOMAIN ids'[j] \subseteq Name
                         /\ ids'[j] \in [DOMAIN ids'[j] -> Nat]
    BY <1>5, <1>6 DEF TypeOK
  <2> QED
    BY <2>1, <2>2 DEF NewId, TypeOK
<1>9. MutexHeld'
  BY <1>3, <1>4 DEF NewId, MutexHeld
<1> HIDE DEF k, n, id
<1>11. IdsAccounted'
  <2> SUFFICES ASSUME NEW j \in Class, NEW m \in DOMAIN ids'[j]
               PROVE  \/ ids'[j][m] < Len(cells'[j])
                      \/ ids'[j][m] = Len(cells'[j]) /\ (m \in failed'[j] \/ Emplacing(j, m)')
    BY DEF IdsAccounted
  <2>1. cells' = cells /\ failed' = failed
    BY DEF NewId
  <2>2. CASE j = k /\ m = n
    <3>1. /\ pc'[t] = "emplace"
          /\ handle'[t].class = j
          /\ handle'[t].name = m
      BY <1>3, <1>4, <2>2 DEF k, n
    <3>2. Emplacing(j, m)'
      BY <3>1 DEF Emplacing
    <3>3. ids'[j][m] = Len(cells'[j])
      BY <1>5, <2>1, <2>2 DEF id
    <3> QED
      BY <3>2, <3>3
  <2>3. CASE ~ (j = k /\ m = n)
    <3>1. m \in DOMAIN ids[j] /\ ids'[j][m] = ids[j][m]
      BY <1>5, <2>3
    <3>2. Emplacing(j, m) => Emplacing(j, m)'
      BY <1>3, <1>4 DEF Emplacing
    <3> QED
      BY <2>1, <3>1, <3>2 DEF IdsAccounted
  <2> QED
    BY <2>2, <2>3
<1>12. HandlesKnown'
  <2> SUFFICES ASSUME NEW s \in Thread, pc'[s] \notin {"new", "find", "gone"}
               PROVE  /\ handle'[s].name \in DOMAIN ids'[handle'[s].class]
                      /\ handle'[s].id = ids'[handle'[s].class][handle'[s].name]
    BY DEF HandlesKnown
  <2>1. CASE s = t
    BY <1>3, <1>4, <1>5, <2>1 DEF k, n
  <2>2. CASE s # t
    <3>1. /\ handle[s].name \in DOMAIN ids[handle[s].class]
          /\ handle[s].id = ids[handle[s].class][handle[s].name]
          /\ handle'[s] = handle[s] /\ handle[s].class \in Class
      BY <1>3, <2>2 DEF HandlesKnown, TypeOK, Handle
    <3> QED
      BY <1>5, <3>1
  <2> QED
    BY <2>1, <2>2
<1>10. UNCHANGED <<cells, storage, failed, history, address, ops>>
  BY DEF NewId
<1>13. EmplacersLast' /\ FailedKnown'
  <2>1. n \notin failed[k]
    BY <1>1 DEF FailedKnown, k
  <2>2. EmplacersLast'
    BY <1>1, <1>3, <1>4, <1>10, <2>1 DEF EmplacersLast, k, n, id
  <2>3. FailedKnown'
    BY <1>5, <1>10 DEF FailedKnown
  <2> QED
    BY <2>2, <2>3
<1>17. HandlesBacked' /\ UsersIndexed' /\ MovedAway' /\ UndefinedOnlyAfterFailure'
  <2>1. \A j \in Class : /\ DOMAIN ids[j] \subseteq DOMAIN ids'[j]
                         /\ \A m \in DOMAIN ids[j] : ids'[j][m] = ids[j][m]
                         /\ failed[j] \subseteq failed'[j]
    BY <1>5, <1>10
  <2> QED
    BY <1>3, <1>4, <1>10, <2>1, OthersKept
<1>14. NamesOwnTheirCells'
  <2> SUFFICES ASSUME NEW j \in Class, NEW l \in DOMAIN ids'[j], NEW m \in DOMAIN ids'[j],
                      ids'[j][l] = ids'[j][m], l # m
               PROVE  l \in failed'[j] \/ m \in failed'[j]
    BY DEF NamesOwnTheirCells
  <2>1. failed' = failed
    BY DEF NewId
  <2>2. CASE j # k
    BY <1>5, <2>1, <2>2 DEF NamesOwnTheirCells
  <2>3. CASE j = k
    <3>1. \A i \in DOMAIN ids[k] : ids[k][i] = id => i \in failed[k]
      BY <1>1, <1>2, <1>7 DEF IdsAccounted, Emplacing, id, k
    <3>2. CASE l # n /\ m # n
      BY <1>5, <2>1, <2>3, <3>2 DEF NamesOwnTheirCells
    <3>3. CASE l = n \/ m = n
      BY <1>5, <2>1, <2>3, <3>1, <3>3
    <3> QED
      BY <3>2, <3>3
  <2> QED
    BY <2>2, <2>3
<1>15. NoLostUpdate'
  BY DEF NewId, NoLostUpdate
<1> QED
  BY <1>5, <1>8, <1>9, <1>11, <1>12, <1>13, <1>14, <1>15, <1>17

(* The cell that completes a registration gives every id of its class a cell *)
(* or leaves it to a failure.                                                *)
LEMMA EmplaceKeeps ==
  ASSUME TelemetryInv, NEW t \in Thread, Emplace(t)
  PROVE  TelemetryInv'
<1> USE DEF TelemetryInv
<1> DEFINE k == handle[t].class
<1>1. k \in Class /\ pc[t] = "emplace" /\ handle' = handle /\ ids' = ids /\ failed' = failed
  BY DEF Emplace, TypeOK, Handle
<1>2. PICK v \in Garbage : /\ cells' = [cells EXCEPT ![k] = Append(@, v)]
                           /\ history' = [history EXCEPT ![k] = Append(@, v)]
  BY DEF Emplace
<1>3. v \in 0 .. Modulus - 1
  BY TelemetryAssumption
<1>4. cells \in [Class -> Seq(0 .. Modulus - 1)] /\ history \in [Class -> Seq(0 .. Modulus - 1)]
  BY DEF TypeOK
<1>5. /\ cells' \in [Class -> Seq(0 .. Modulus - 1)]
      /\ history' \in [Class -> Seq(0 .. Modulus - 1)]
      /\ Len(cells'[k]) = Len(cells[k]) + 1
      /\ \A j \in Class : j # k => cells'[j] = cells[j]
  BY <1>1, <1>2, <1>3, <1>4
<1>6. pc'[t] = "ready" /\ \A s \in Thread : s # t => pc'[s] = pc[s]
  BY DEF Emplace, Goto, TypeOK
<1>7. TypeOK'
  <2>1. pc' \in [Thread -> Label]
    BY DEF Emplace, Goto, TypeOK, Label
  <2>2. storage' \in [Class -> Nat] /\ mutex' \in [Class -> Thread \cup {NoThread}]
    BY <1>1 DEF Emplace, TypeOK
  <2> QED
    BY <1>1, <1>5, <2>1, <2>2 DEF Emplace, TypeOK
<1>8. \A s \in Thread : s # t /\ pc[s] \in {"find", "emplace"} => handle[s].class # k
  BY <1>1 DEF MutexHeld
<1>9. MutexHeld'
  BY <1>1, <1>6, <1>8 DEF Emplace, MutexHeld, TypeOK, Handle
<1> HIDE DEF k
<1>10. IdsAccounted'
  <2> SUFFICES ASSUME NEW j \in Class, NEW m \in DOMAIN ids[j]
               PROVE  \/ ids[j][m] < Len(cells'[j])
                      \/ ids[j][m] = Len(cells'[j]) /\ (m \in failed[j] \/ Emplacing(j, m)')
    BY <1>1 DEF IdsAccounted
  <2>1. ids[j][m] \in Nat /\ Len(cells[j]) \in Nat
    BY <1>4 DEF TypeOK
  <2>2. ids[j][m] <= Len(cells[j])
    BY <2>1 DEF IdsAccounted
  <2>3. CASE j = k
    BY <1>5, <2>1, <2>2, <2>3
  <2>4. CASE j # k
    <3>1. Emplacing(j, m) => Emplacing(j, m)'
      BY <1>1, <1>6, <2>4 DEF Emplacing, k
    <3> QED
      BY <1>1, <1>5, <2>4, <3>1 DEF IdsAccounted
  <2> QED
    BY <2>3, <2>4
<1>11. HandlesKnown'
  BY <1>1, <1>6 DEF HandlesKnown
<1>12. \A s \in Thread : handle[s].class \in Class /\ handle[s].id \in Nat
  BY DEF TypeOK, Handle
<1>17. \A j \in Class : /\ Len(cells[j]) \in Nat /\ Len(cells'[j]) \in Nat
                        /\ Len(cells[j]) <= Len(cells'[j])
  <2> SUFFICES ASSUME NEW j \in Class
               PROVE  /\ Len(cells[j]) \in Nat /\ Len(cells'[j]) \in Nat
                      /\ Len(cells[j]) <= Len(cells'[j])
    OBVIOUS
  <2>1. Len(cells[j]) \in Nat /\ Len(cells'[j]) \in Nat
    BY <1>4, <1>5
  <2>2. CASE j = k
    BY <1>5, <2>1, <2>2
  <2>3. CASE j # k
    BY <1>5, <2>1, <2>3
  <2> QED
    BY <2>1, <2>2, <2>3
<1>18. EmplacersLast' /\ FailedKnown'
  BY <1>1, <1>5, <1>6, <1>8, <1>12 DEF EmplacersLast, FailedKnown
<1>19. HandlesBacked'
  <2> SUFFICES ASSUME NEW s \in Thread, pc'[s] \in {"ready", "addressed"}
               PROVE  \/ handle[s].id < Len(cells'[handle[s].class])
                      \/ /\ handle[s].id = Len(cells'[handle[s].class])
                         /\ handle[s].name \in failed[handle[s].class]
    BY <1>1 DEF HandlesBacked
  <2>1. CASE s = t
    <3>1. handle[t].id = Len(cells[k]) /\ handle[t].class = k
      BY <1>1 DEF EmplacersLast, k
    <3> QED
      BY <1>1, <1>5, <1>17, <2>1, <3>1
  <2>2. CASE s # t /\ handle[s].class = k
    <3>1. handle[s].id < Len(cells[k]) \/ handle[s].id = Len(cells[k])
      BY <1>6, <2>2 DEF HandlesBacked
    <3>2. handle[s].id < Len(cells'[k])
      BY <1>1, <1>5, <1>12, <1>17, <3>1
    <3> QED
      BY <2>2, <3>2
  <2>3. CASE s # t /\ handle[s].class # k
    BY <1>5, <1>6, <1>12, <2>3 DEF HandlesBacked
  <2> QED
    BY <2>1, <2>2, <2>3
<1>20. UsersIndexed'
  <2> SUFFICES ASSUME NEW s \in Thread
               PROVE  /\ pc'[s] \in Using \cup {"addressed"} => ops'[s] < MaxOps
                      /\ pc'[s] \in Using => handle[s].id < Len(cells'[handle[s].class])
    BY <1>1 DEF UsersIndexed
  <2>1. ops' = ops
    BY DEF Emplace
  <2> QED
    BY <1>6, <1>12, <1>17, <2>1 DEF UsersIndexed, Using
<1>13. MovedAway'
  <2> SUFFICES ASSUME NEW s \in Thread,
                      pc'[s] = "stale" \/ (pc'[s] = "addressed" /\ ~ InPlace(s)')
               PROVE  Outrun(s)'
    BY DEF MovedAway
  <2>1. s # t /\ pc'[s] = pc[s] /\ address' = address
    BY <1>6 DEF Emplace
  <2>2. Outrun(s) => Outrun(s)'
    BY <1>1 DEF Outrun
  <2>3. CASE pc[s] = "stale" \/ ~ InPlace(s)
    BY <2>1, <2>2, <2>3 DEF MovedAway
  <2>4. CASE pc[s] = "addressed" /\ InPlace(s)
    <3>1. handle[s].class = k
      <4>1. storage'[handle[s].class] # storage[handle[s].class]
        BY <1>1, <2>1, <2>4 DEF InPlace
      <4> QED
        BY <1>1, <1>12, <4>1 DEF Emplace, TypeOK, k
    <3>2. /\ handle[t].id = Len(cells[k]) /\ handle[t].name \notin failed[k]
          /\ handle[t].name \in DOMAIN ids[k] /\ ids[k][handle[t].name] = handle[t].id
      BY <1>1 DEF EmplacersLast, HandlesKnown, k
    <3>3. handle[s].id < Len(cells[k])
          \/ (handle[s].id = Len(cells[k]) /\ handle[s].name \in failed[k])
      BY <2>4, <3>1 DEF HandlesBacked
    <3>4. handle[s].name \in DOMAIN ids[k] /\ handle[s].id = ids[k][handle[s].name]
      BY <2>4, <3>1 DEF HandlesKnown
    <3>5. handle[t].name # handle[s].name /\ ids[k][handle[t].name] >= handle[s].id
      BY <1>1, <1>12, <1>17, <3>2, <3>3, <3>4
    <3> QED
      BY <1>1, <3>1, <3>2, <3>5 DEF Outrun
  <2> QED
    BY <2>1, <2>3, <2>4
<1>14. NamesOwnTheirCells'
  BY <1>1 DEF NamesOwnTheirCells
<1>15. NoLostUpdate'
  BY <1>2 DEF NoLostUpdate
<1>16. UndefinedOnlyAfterFailure'
  BY <1>1, <1>6 DEF UndefinedOnlyAfterFailure
<1> QED
  BY <1>1, <1>7, <1>9, <1>10, <1>11, <1>13, <1>14, <1>15, <1>16, <1>18, <1>19, <1>20

(* emplace_back throws: the name joins the failed ones of its class. *)
LEMMA EmplaceThrowsKeeps ==
  ASSUME TelemetryInv, NEW t \in Thread, EmplaceThrows(t)
  PROVE  TelemetryInv'
<1> USE DEF TelemetryInv
<1> DEFINE k == handle[t].class
           n == handle[t].name
<1>1. /\ k \in Class /\ n \in Name /\ pc[t] = "emplace"
      /\ UNCHANGED <<ids, cells, storage, history, handle, address, by, current, ops>>
  BY DEF EmplaceThrows, TypeOK, Handle
<1>2. pc'[t] = "gone" /\ \A s \in Thread : s # t => pc'[s] = pc[s]
  BY DEF EmplaceThrows, Goto, TypeOK
<1>3. /\ failed' \in [Class -> SUBSET Name] /\ n \in failed'[k]
      /\ \A j \in Class : failed[j] \subseteq failed'[j]
  BY <1>1 DEF EmplaceThrows, TypeOK
<1>4. TypeOK'
  <2>1. pc' \in [Thread -> Label]
    BY DEF EmplaceThrows, Goto, TypeOK, Label
  <2>2. mutex' \in [Class -> Thread \cup {NoThread}]
    BY <1>1 DEF EmplaceThrows, TypeOK
  <2> QED
    BY <1>1, <1>3, <2>1, <2>2 DEF TypeOK
<1>5. \A s \in Thread : s # t /\ pc[s] \in {"find", "emplace"} => handle[s].class # k
  BY <1>1 DEF MutexHeld
<1>6. MutexHeld'
  BY <1>1, <1>2, <1>5 DEF EmplaceThrows, MutexHeld, TypeOK, Handle
<1> HIDE DEF k, n
<1>7. IdsAccounted'
  <2> SUFFICES ASSUME NEW j \in Class, NEW m \in DOMAIN ids[j]
               PROVE  \/ ids[j][m] < Len(cells[j])
                      \/ ids[j][m] = Len(cells[j]) /\ (m \in failed'[j] \/ Emplacing(j, m)')
    BY <1>1 DEF IdsAccounted
  <2>1. Emplacing(j, m) => (j = k /\ m = n) \/ Emplacing(j, m)'
    BY <1>1, <1>2 DEF Emplacing, k, n
  <2> QED
    BY <1>3, <2>1 DEF IdsAccounted
<1>8. HandlesKnown'
  BY <1>1, <1>2 DEF HandlesKnown
<1>9. HandlesBacked' /\ UsersIndexed' /\ MovedAway' /\ UndefinedOnlyAfterFailure'
  BY <1>1, <1>2, <1>3, OthersKept
<1>10. NamesOwnTheirCells' /\ NoLostUpdate'
  BY <1>1, <1>3 DEF NamesOwnTheirCells, NoLostUpdate
<1>11. /\ \A j \in Class : j # k => failed'[j] = failed[j]
       /\ failed'[k] = failed[k] \cup {n}
  BY <1>1 DEF EmplaceThrows, TypeOK, k, n
<1>12. n \in DOMAIN ids[k]
  BY <1>1 DEF HandlesKnown, k, n
<1>13. EmplacersLast'
  BY <1>1, <1>2, <1>5, <1>11 DEF EmplacersLast, TypeOK, Handle
<1>14. FailedKnown'
  BY <1>1, <1>11, <1>12 DEF FailedKnown
<1> QED
  BY <1>1, <1>4, <1>6, <1>7, <1>8, <1>9, <1>10, <1>13, <1>14

-----------------------------------------------------------------------------
(* Handles in use, while others may be registering. *)

Held == {"ready", "addressed", "indexed", "loaded"}

(* A step of a thread that has its handle leaves the registries alone, as    *)
(* far as they are not its cell.                                             *)
LEMMA RegistrySteady ==
  ASSUME TelemetryInv, NEW t \in Thread, pc[t] \in Held,
         pc'[t] \in Held \cup {"undefined", "stale"},
         \A s \in Thread : s # t => pc'[s] = pc[s],
         UNCHANGED <<mutex, ids, storage, failed, handle>>,
         \A k \in Class : Len(cells'[k]) = Len(cells[k])
  PROVE  /\ (DOMAIN ids = Class)'
         /\ MutexHeld' /\ IdsAccounted' /\ HandlesKnown' /\ EmplacersLast' /\ FailedKnown'
         /\ NamesOwnTheirCells'
<1> USE DEF TelemetryInv, Held
<1>0. \A s \in Thread : handle[s].class \in Class
  BY DEF TypeOK, Handle
<1>1. MutexHeld'
  BY DEF MutexHeld
<1>2. IdsAccounted'
  BY DEF IdsAccounted, Emplacing
<1>3. HandlesKnown'
  BY DEF HandlesKnown
<1>4. EmplacersLast' /\ FailedKnown'
  BY <1>0 DEF EmplacersLast, FailedKnown
<1>5. NamesOwnTheirCells'
  BY DEF NamesOwnTheirCells
<1> QED
  BY <1>1, <1>2, <1>3, <1>4, <1>5

(* The storage's address is read: it is the current one. *)
LEMMA AddressKeeps ==
  ASSUME TelemetryInv, NEW t \in Thread, Address(t)
  PROVE  TelemetryInv'
<1> USE DEF TelemetryInv
<1>1. /\ ops[t] < MaxOps /\ pc[t] = "ready" /\ handle[t].class \in Class
      /\ UNCHANGED <<mutex, ids, cells, storage, failed, history, handle, current, ops>>
  BY DEF Address, registryVars, TypeOK, Handle
<1>2. /\ pc' \in [Thread -> Label]
      /\ pc'[t] = "addressed" /\ \A s \in Thread : s # t => pc'[s] = pc[s]
  BY DEF Address, Goto, TypeOK, Label
<1>3. /\ address' \in [Thread -> Nat] /\ address'[t] = storage[handle[t].class]
      /\ \A s \in Thread : s # t => address'[s] = address[s]
  BY <1>1 DEF Address, TypeOK
<1>4. by' \in [Thread -> Nat]
  BY TelemetryAssumption DEF Address, TypeOK
<1>5. TypeOK'
  BY <1>1, <1>2, <1>3, <1>4 DEF TypeOK
<1>6. /\ (DOMAIN ids = Class)'
      /\ MutexHeld' /\ IdsAccounted' /\ HandlesKnown' /\ EmplacersLast' /\ FailedKnown'
      /\ NamesOwnTheirCells'
  BY <1>1, <1>2, RegistrySteady DEF Held
<1>7. HandlesBacked' /\ UsersIndexed'
  BY <1>1, <1>2 DEF HandlesBacked, UsersIndexed, Using
<1>8. MovedAway'
  BY <1>1, <1>2, <1>3 DEF MovedAway, InPlace, Outrun
<1>9. NoLostUpdate' /\ UndefinedOnlyAfterFailure'
  BY <1>1, <1>2 DEF NoLostUpdate, UndefinedOnlyAfterFailure
<1> QED
  BY <1>5, <1>6, <1>7, <1>8, <1>9

(* The pointer to the cell is read: from the cell, past the end, which is    *)
(* only there after a failure, or from storage that has moved away.          *)
LEMMA IndexKeeps ==
  ASSUME TelemetryInv, NEW t \in Thread, Index(t) \/ IndexPastEnd(t) \/ IndexStale(t)
  PROVE  TelemetryInv'
<1> USE DEF TelemetryInv
<1>1. /\ pc[t] = "addressed" /\ handle[t].class \in Class /\ handle[t].id \in Nat
      /\ Len(cells[handle[t].class]) \in Nat
      /\ UNCHANGED <<mutex, ids, cells, storage, failed, history, handle, address, by,
                     current, ops>>
  BY DEF Index, IndexPastEnd, IndexStale, registryVars, TypeOK, Handle
<1>2. /\ pc' \in [Thread -> Label]
      /\ pc'[t] \in {"indexed", "undefined", "stale"}
      /\ \A s \in Thread : s # t => pc'[s] = pc[s]
  BY DEF Index, IndexPastEnd, IndexStale, Goto, TypeOK, Label
<1>3. /\ pc'[t] = "indexed" => handle[t].id < Len(cells[handle[t].class])
      /\ pc'[t] = "undefined" => handle[t].id >= Len(cells[handle[t].class])
      /\ pc'[t] = "stale" => ~ InPlace(t)
  BY DEF Index, IndexPastEnd, IndexStale, Goto, TypeOK
<1>4. TypeOK'
  BY <1>1, <1>2 DEF TypeOK
<1>5. /\ (DOMAIN ids = Class)'
      /\ MutexHeld' /\ IdsAccounted' /\ HandlesKnown' /\ EmplacersLast' /\ FailedKnown'
      /\ NamesOwnTheirCells'
  BY <1>1, <1>2, RegistrySteady DEF Held
<1>6. HandlesBacked' /\ UsersIndexed'
  BY <1>1, <1>2, <1>3 DEF HandlesBacked, UsersIndexed, Using
<1>7. MovedAway'
  BY <1>1, <1>2, <1>3 DEF MovedAway, InPlace, Outrun
<1>8. pc'[t] = "undefined" => failed[handle[t].class] # {}
  BY <1>1, <1>3 DEF HandlesBacked
<1>9. NoLostUpdate' /\ UndefinedOnlyAfterFailure'
  BY <1>1, <1>2, <1>8 DEF NoLostUpdate, UndefinedOnlyAfterFailure
<1> QED
  BY <1>4, <1>5, <1>6, <1>7, <1>9

(* An operation that stores in its cell what it should have stored. *)
LEMMA StoreKeeps ==
  ASSUME TelemetryInv, NEW t \in Thread, pc[t] \in Using, NEW v \in 0 .. Modulus - 1,
         Store(t, v, v)
  PROVE  TelemetryInv'
<1> USE DEF TelemetryInv
<1> DEFINE k == handle[t].class
           i == handle[t].id + 1
<1>1. /\ UNCHANGED <<mutex, ids, storage, failed, handle, address, by, current>>
      /\ k \in Class /\ handle[t].id \in Nat
  BY DEF Store, TypeOK, Handle
<1>2. ops[t] < MaxOps /\ handle[t].id < Len(cells[k])
  BY DEF UsersIndexed
<1>3. cells' = history'
  BY DEF Store, NoLostUpdate
<1>4. cells \in [Class -> Seq(0 .. Modulus - 1)]
  BY DEF TypeOK
<1>5. i \in 1 .. Len(cells[k])
  BY <1>1, <1>2, <1>4
<1>6. cells' = [cells EXCEPT ![k] = [cells[k] EXCEPT ![i] = v]]
  BY <1>1, <1>4 DEF Store
<1> HIDE DEF k, i
<1>7. /\ [cells[k] EXCEPT ![i] = v] \in Seq(0 .. Modulus - 1)
      /\ Len([cells[k] EXCEPT ![i] = v]) = Len(cells[k])
  BY <1>1, <1>4, <1>5
<1>8. /\ cells' \in [Class -> Seq(0 .. Modulus - 1)]
      /\ \A j \in Class : Len(cells'[j]) = Len(cells[j])
  BY <1>1, <1>4, <1>6, <1>7
<1>9. pc'[t] = "ready" /\ \A s \in Thread : s # t => pc'[s] = pc[s]
  BY DEF Store, Goto, TypeOK
<1>10. /\ ops' \in [Thread -> 0 .. MaxOps]
       /\ \A s \in Thread : s # t => ops'[s] = ops[s]
  BY <1>2, TelemetryAssumption DEF Store, TypeOK
<1>11. pc' \in [Thread -> Label]
  BY DEF Store, Goto, TypeOK, Label
<1>12. TypeOK'
  BY <1>1, <1>3, <1>8, <1>10, <1>11 DEF TypeOK
<1>13. /\ (DOMAIN ids = Class)'
       /\ MutexHeld' /\ IdsAccounted' /\ HandlesKnown' /\ EmplacersLast' /\ FailedKnown'
       /\ NamesOwnTheirCells'
  BY <1>1, <1>8, <1>9, RegistrySteady DEF Held, Using
<1>14. \A s \in Thread : handle[s].class \in Class
  BY DEF TypeOK, Handle
<1>15. HandlesBacked'
  <2>1. handle[t].id < Len(cells'[handle[t].class])
    BY <1>1, <1>2, <1>8 DEF k
  <2> QED
    BY <1>1, <1>8, <1>9, <1>14, <2>1 DEF HandlesBacked
<1>16. UsersIndexed'
  BY <1>1, <1>8, <1>9, <1>10, <1>14 DEF UsersIndexed, Using
<1>17. MovedAway'
  BY <1>1, <1>9 DEF MovedAway, InPlace, Outrun
<1>18. UndefinedOnlyAfterFailure'
  BY <1>1, <1>9 DEF UndefinedOnlyAfterFailure
<1>19. NoLostUpdate'
  BY <1>3 DEF NoLostUpdate
<1> QED
  BY <1>12, <1>13, <1>15, <1>16, <1>17, <1>18, <1>19

(* An increment stays within the range of a cell. *)
LEMMA SumType ==
  ASSUME TelemetryInv, NEW t \in Thread, NEW v \in 0 .. Modulus - 1
  PROVE  Sum(t, v) \in 0 .. Modulus - 1
<1>1. by[t] \in Nat /\ Modulus \in Nat \ {0}
  BY TelemetryAssumption DEF TelemetryInv, TypeOK
<1>2. (v + by[t]) % Modulus \in 0 .. Modulus - 1
  BY <1>1
<1> QED
  BY <1>1, <1>2 DEF Sum

(* What a sequence holds at one of its indices is in its set. *)
LEMMA ElementType ==
  ASSUME NEW S, NEW s \in Seq(S), NEW i \in 1 .. Len(s)
  PROVE  s[i] \in S
OBVIOUS

(* A handle in use reads a cell that exists and has every update. *)
LEMMA ValueType ==
  ASSUME TelemetryInv, NEW t \in Thread, pc[t] \in Using
  PROVE  Value(t) \in 0 .. Modulus - 1 /\ Recorded(t) = Value(t)
<1>1. /\ handle[t].class \in Class /\ handle[t].id \in Nat
      /\ handle[t].id < Len(cells[handle[t].class])
      /\ cells[handle[t].class] \in Seq(0 .. Modulus - 1)
  BY DEF TelemetryInv, TypeOK, Handle, UsersIndexed
<1>2. handle[t].id + 1 \in 1 .. Len(cells[handle[t].class])
  BY <1>1
<1>3. cells[handle[t].class][handle[t].id + 1] \in 0 .. Modulus - 1
  <2> DEFINE s == cells[handle[t].class]
             i == handle[t].id + 1
  <2>1. s \in Seq(0 .. Modulus - 1) /\ i \in 1 .. Len(s)
    BY <1>1, <1>2
  <2> HIDE DEF s, i
  <2>2. s[i] \in 0 .. Modulus - 1
    BY <2>1, ElementType
  <2> QED
    BY <2>2 DEF s, i
<1>4. Recorded(t) = Value(t)
  BY DEF Value, Recorded, TelemetryInv, NoLostUpdate
<1> QED
  BY <1>3, <1>4 DEF Value

(* Steps of the exchange loop that store nothing. *)
LEMMA LoadKeeps ==
  ASSUME TelemetryInv, NEW t \in Thread, GaugeLoad(t) \/ GaugeRetry(t)
  PROVE  TelemetryInv'
<1> USE DEF TelemetryInv
<1>1. pc[t] \in Using
  BY DEF GaugeLoad, GaugeRetry, Using
<1>2. current' = [current EXCEPT ![t] = Value(t)]
  BY DEF GaugeLoad, GaugeRetry
<1>3. current' \in [Thread -> 0 .. Modulus - 1]
  BY <1>1, <1>2, ValueType DEF TypeOK
<1>4. UNCHANGED <<mutex, ids, cells, storage, failed, history, handle, address, by, ops>>
  BY DEF GaugeLoad, GaugeRetry, registryVars
<1>5. /\ pc' \in [Thread -> Label]
      /\ pc'[t] = "loaded" /\ \A s \in Thread : s # t => pc'[s] = pc[s]
  BY DEF GaugeLoad, GaugeRetry, Goto, TypeOK, Label
<1>6. TypeOK'
  BY <1>3, <1>4, <1>5 DEF TypeOK
<1>7. /\ (DOMAIN ids = Class)'
      /\ MutexHeld' /\ IdsAccounted' /\ HandlesKnown' /\ EmplacersLast' /\ FailedKnown'
      /\ NamesOwnTheirCells'
  BY <1>1, <1>4, <1>5, RegistrySteady DEF Held, Using
<1>8. HandlesBacked' /\ UsersIndexed'
  BY <1>1, <1>4, <1>5 DEF HandlesBacked, UsersIndexed, Using
<1>9. MovedAway'
  BY <1>4, <1>5 DEF MovedAway, InPlace, Outrun
<1>10. NoLostUpdate' /\ UndefinedOnlyAfterFailure'
  BY <1>4, <1>5 DEF NoLostUpdate, UndefinedOnlyAfterFailure
<1> QED
  BY <1>6, <1>7, <1>8, <1>9, <1>10

(* Stuttering. *)
LEMMA UnchangedKeeps ==
  ASSUME TelemetryInv, UNCHANGED vars
  PROVE  TelemetryInv'
<1>1. UNCHANGED <<mutex, ids, cells, storage, failed, history, pc, handle, address, by,
                  current, ops>>
  BY DEF vars, registryVars, threadVars
<1> USE DEF TelemetryInv
<1>2. TypeOK' /\ DOMAIN ids' = Class
  BY <1>1 DEF TypeOK
<1>3. MutexHeld' /\ HandlesKnown' /\ EmplacersLast' /\ FailedKnown' /\ HandlesBacked'
  BY <1>1 DEF MutexHeld, HandlesKnown, EmplacersLast, FailedKnown, HandlesBacked
<1>4. IdsAccounted'
  BY <1>1 DEF IdsAccounted, Emplacing
<1>5. UsersIndexed' /\ MovedAway'
  BY <1>1 DEF UsersIndexed, Using, MovedAway, InPlace, Outrun
<1>6. NamesOwnTheirCells' /\ UndefinedOnlyAfterFailure' /\ NoLostUpdate'
  BY <1>1 DEF NamesOwnTheirCells, UndefinedOnlyAfterFailure, NoLostUpdate
<1> QED
  BY <1>2, <1>3, <1>4, <1>5, <1>6

(* The inductive invariant holds in every state, one case per operation. *)
LEMMA TelemetryInvariant == Spec => []TelemetryInv
<1>1. Init => TelemetryInv
  BY InitTelemetry
<1>2. TelemetryInv /\ [Next]_vars => TelemetryInv'
  <2> SUFFICES ASSUME TelemetryInv, [Next]_vars
               PROVE  TelemetryInv'
    OBVIOUS
  <2>1. CASE UNCHANGED vars
    BY <2>1, UnchangedKeeps
  <2>2. ASSUME NEW t \in Thread, Register(t)
        PROVE  TelemetryInv'
    BY <2>2, LockKeeps, FoundKeeps, NewIdKeeps, NewIdThrowsKeeps, EmplaceKeeps,
       EmplaceThrowsKeeps DEF Register
  <2>3. ASSUME NEW t \in Thread, CounterInc(t)
        PROVE  TelemetryInv'
    <3>1. pc[t] \in Using
      BY <2>3 DEF CounterInc, Using
    <3>2. Sum(t, Value(t)) \in 0 .. Modulus - 1 /\ Recorded(t) = Value(t)
      BY <3>1, ValueType, SumType
    <3>3. Store(t, Sum(t, Value(t)), Sum(t, Value(t)))
      BY <2>3, <3>2 DEF CounterInc
    <3> QED
      BY <3>1, <3>2, <3>3, StoreKeeps
  <2>4. ASSUME NEW t \in Thread, SetTo(t)
        PROVE  TelemetryInv'
    <3>1. pc[t] \in Using
      BY <2>4 DEF SetTo, Using
    <3>2. PICK v \in To \cup {0} : Store(t, v, v)
      BY <2>4 DEF SetTo
    <3>3. v \in 0 .. Modulus - 1
      BY TelemetryAssumption
    <3> QED
      BY <3>1, <3>2, <3>3, StoreKeeps
  <2>5. ASSUME NEW t \in Thread, GaugeExchange(t)
        PROVE  TelemetryInv'
    <3>1. pc[t] \in Using
      BY <2>5 DEF GaugeExchange, Using
    <3>2. Sum(t, Value(t)) \in 0 .. Modulus - 1 /\ Recorded(t) = Value(t)
      BY <3>1, ValueType, SumType
    <3>3. Store(t, Sum(t, Value(t)), Sum(t, Value(t)))
      BY <2>5, <3>2 DEF GaugeExchange
    <3> QED
      BY <3>1, <3>2, <3>3, StoreKeeps
  <2>6. ASSUME NEW t \in Thread, Address(t) \/ GaugeLoad(t) \/ GaugeRetry(t)
        PROVE  TelemetryInv'
    BY <2>6, AddressKeeps, LoadKeeps
  <2>7. ASSUME NEW t \in Thread, Index(t) \/ IndexPastEnd(t) \/ IndexStale(t)
        PROVE  TelemetryInv'
    BY <2>7, IndexKeeps
  <2> QED
    BY <2>1, <2>2, <2>3, <2>4, <2>5, <2>6, <2>7 DEF Next, Use
<1> QED
  BY <1>1, <1>2, PTL DEF Spec

(* Registration, use and failure keep the types of both registries. *)
THEOREM TypeCorrect == Spec => []TypeOK
<1>1. TelemetryInv => TypeOK
  BY DEF TelemetryInv
<1> QED
  BY <1>1, TelemetryInvariant, PTL

(* For any threads and names: make_or_get gives two names one id only if the *)
(* registration of one of them threw (Telemetry.cpp:14-16).                  *)
THEOREM NamesAlwaysOwnTheirCells == Spec => []NamesOwnTheirCells
<1>1. TelemetryInv => NamesOwnTheirCells
  BY DEF TelemetryInv
<1> QED
  BY <1>1, TelemetryInvariant, PTL

(* For any threads and names: a handle indexes past the end of its vector    *)
(* only if some registration of its class threw (Telemetry.h:16).            *)
THEOREM DefinedWithoutFailure == Spec => []UndefinedOnlyAfterFailure
<1>1. TelemetryInv => UndefinedOnlyAfterFailure
  BY DEF TelemetryInv
<1> QED
  BY <1>1, TelemetryInvariant, PTL

(* For any number of threads: no increment of a counter or a gauge is lost,  *)
(* also through the compare-and-exchange of Gauge_c::inc (Telemetry.h:55).   *)
THEOREM UpdatesAreNeverLost == Spec => []NoLostUpdate
<1>1. TelemetryInv => NoLostUpdate
  BY DEF TelemetryInv
<1> QED
  BY <1>1, TelemetryInvariant, PTL

(* For any threads and names, with handles used while others are being       *)
(* constructed: storage is freed under a thread that is indexing it only by  *)
(* the first registration of another name at or behind the handle's own      *)
(* (Telemetry.h:16 against Telemetry.cpp:16).                                *)
THEOREM OnlyLaterNamesMoveStorage == Spec => []StaleOnlyAfterLaterName
<1>1. TelemetryInv => StaleOnlyAfterLaterName
  BY DEF TelemetryInv, MovedAway, Outrun, StaleOnlyAfterLaterName
<1> QED
  BY <1>1, TelemetryInvariant, PTL
=============================================================================
