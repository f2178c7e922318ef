----------------------------- MODULE Telemetry -----------------------------
(***************************************************************************)
(* Telemetry counters and gauges (include/util/Telemetry.h,                *)
(* src/util/Telemetry.cpp).  Counter_c and Gauge_c are the same registry   *)
(* twice: a mutex, a map from names to ids, and a vector of atomic cells.  *)
(* Constructing a handle runs make_or_get under the mutex.  Using a handle *)
(* indexes the vector without it, while other threads may be registering:  *)
(* the address of the vector's storage is read first, then the pointer to  *)
(* the cell in it, and the storage may be freed in between, for it moves   *)
(* when the vector grows.  The cells themselves never move.                *)
(***************************************************************************)
EXTENDS Naturals, Sequences

CONSTANTS Thread, Name,
          NoThread,
          Modulus,      \* values of a cell: 2^32 for std::atomic_uint
          Garbage,      \* what a cell holds before its first store
          By, To,       \* arguments of inc and of set
          MaxOps        \* bound: operations per thread

Class == {"counter", "gauge"}

ASSUME TelemetryAssumption ==
    /\ NoThread \notin Thread
    /\ Modulus \in Nat \ {0}
    /\ Garbage \cup To \subseteq 0 .. Modulus - 1
    /\ By \subseteq Nat
    /\ MaxOps \in Nat

VARIABLES
    mutex,     \* class -> the thread that holds its mutex
    ids,       \* class -> its map from names to ids
    cells,     \* class -> its vector of atomic values; id i is cell i + 1
    storage,   \* class -> how often the vector has moved
    pc,        \* where a thread is
    handle,    \* the handle a thread constructs or uses: class, name and id
    address,   \* the storage a thread is about to use
    by,        \* what a thread is about to add
    current,   \* Gauge_c::inc: the local variable `current`
    ops,       \* operations a thread has completed
    failed,    \* class -> names whose emplace_back threw
    history    \* class -> per cell: the last store plus all increments since

registryVars == <<mutex, ids, cells, storage, failed, history>>
threadVars == <<pc, handle, address, by, current, ops>>
vars == <<registryVars, threadVars>>

Handle == [class : Class, name : Name, id : Nat]
Label == {"new", "find", "emplace", "ready", "gone", "addressed", "indexed", "loaded",
          "undefined", "stale"}

Init ==
    /\ mutex = [k \in Class |-> NoThread]
    /\ ids = [k \in Class |-> <<>>]
    /\ cells = [k \in Class |-> <<>>]
    /\ storage = [k \in Class |-> 0]
    /\ pc = [t \in Thread |-> "new"]
    /\ handle \in [Thread -> [class : Class, name : Name, id : {0}]]
    /\ address = [t \in Thread |-> 0]
    /\ by = [t \in Thread |-> 0]
    /\ current = [t \in Thread |-> 0]
    /\ ops = [t \in Thread |-> 0]
    /\ failed = [k \in Class |-> {}]
    /\ history = [k \in Class |-> <<>>]

Put(f, x, v) == [y \in DOMAIN f \cup {x} |-> IF y = x THEN v ELSE f[y]]
Goto(t, l) == pc' = [pc EXCEPT ![t] = l]

-----------------------------------------------------------------------------
(* make_or_get (Telemetry.cpp:7-21 and 31-45). *)

(* Variant: the guard is left out. *)
LockUnguarded(t) ==
    /\ pc[t] = "new"
    /\ mutex' = [mutex EXCEPT ![handle[t].class] = t]
    /\ Goto(t, "find")
    /\ UNCHANGED <<ids, cells, storage, failed, history, handle, address,
                   by, current, ops>>

Lock(t) ==
    LET k == handle[t].class
    IN  /\ pc[t] = "new"
        /\ mutex[k] = NoThread
        /\ mutex' = [mutex EXCEPT ![k] = t]
        /\ Goto(t, "find")
        /\ UNCHANGED <<ids, cells, storage, failed, history, handle, address,
                       by, current, ops>>

(* Lines 10-12: the name is known; the guard unlocks on return. *)
Found(t) ==
    LET k == handle[t].class
        n == handle[t].name
    IN  /\ pc[t] = "find"
        /\ n \in DOMAIN ids[k]
        /\ handle' = [handle EXCEPT ![t].id = ids[k][n]]
        /\ mutex' = [mutex EXCEPT ![k] = NoThread]
        /\ Goto(t, "ready")
        /\ UNCHANGED <<ids, cells, storage, failed, history, address, by, current, ops>>

(* Variant: ids start at one. *)
NewIdFromOne(t) ==
    LET k == handle[t].class
        n == handle[t].name
    IN  /\ pc[t] = "find"
        /\ n \notin DOMAIN ids[k]
        /\ ids' = [ids EXCEPT ![k] = Put(@, n, Len(cells[k]) + 1)]
        /\ handle' = [handle EXCEPT ![t].id = Len(cells[k]) + 1]
        /\ Goto(t, "emplace")
        /\ UNCHANGED <<mutex, cells, storage, failed, history, address, by, current, ops>>

(* Lines 14-15: the name gets the next id before its cell exists. *)
NewId(t) ==
    LET k == handle[t].class
        n == handle[t].name
    IN  /\ pc[t] = "find"
        /\ n \notin DOMAIN ids[k]
        /\ ids' = [ids EXCEPT ![k] = Put(@, n, Len(cells[k]))]
        /\ handle' = [handle EXCEPT ![t].id = Len(cells[k])]
        /\ Goto(t, "emplace")
        /\ UNCHANGED <<mutex, cells, storage, failed, history, address, by, current, ops>>

(* Line 15: the map's new node cannot be allocated.  Nothing is registered,   *)
(* the guard unlocks, and the thread has no handle.                           *)
NewIdThrows(t) ==
    LET k == handle[t].class
    IN  /\ pc[t] = "find"
        /\ handle[t].name \notin DOMAIN ids[k]
        /\ mutex' = [mutex EXCEPT ![k] = NoThread]
        /\ Goto(t, "gone")
        /\ UNCHANGED <<ids, cells, storage, failed, history, handle, address, by,
                       current, ops>>

(* Lines 16-17: the vector takes a cell with an indeterminate value, and      *)
(* moves if its capacity is used up...                                        *)
Emplace(t) ==
    LET k == handle[t].class
    IN  /\ pc[t] = "emplace"
        /\ \E v \in Garbage :
              /\ cells' = [cells EXCEPT ![k] = Append(@, v)]
              /\ history' = [history EXCEPT ![k] = Append(@, v)]
        /\ \E moves \in 0 .. 1 : storage' = [storage EXCEPT ![k] = @ + moves]
        /\ mutex' = [mutex EXCEPT ![k] = NoThread]
        /\ Goto(t, "ready")
        /\ UNCHANGED <<ids, failed, handle, address, by, current, ops>>

(* Variant: the mutex is locked and unlocked by hand (lines 9 and 19), and an *)
(* exception leaves it locked.                                               *)
EmplaceThrowsLocked(t) ==
    /\ pc[t] = "emplace"
    /\ failed' = [failed EXCEPT ![handle[t].class] = @ \cup {handle[t].name}]
    /\ Goto(t, "gone")
    /\ UNCHANGED <<mutex, ids, cells, storage, history, handle, address, by,
                   current, ops>>

(* ... or an allocation throws: the name keeps its id, the guard unlocks, and *)
(* the thread has no handle.                                                  *)
EmplaceThrows(t) ==
    LET k == handle[t].class
    IN  /\ pc[t] = "emplace"
        /\ failed' = [failed EXCEPT ![k] = @ \cup {handle[t].name}]
        /\ mutex' = [mutex EXCEPT ![k] = NoThread]
        /\ Goto(t, "gone")
        /\ UNCHANGED <<ids, cells, storage, history, handle, address, by, current, ops>>

-----------------------------------------------------------------------------
(* The operations of a handle (Telemetry.h:15-37 and 52-80). *)

(* counters[id], gauges[id], without the mutex: first the vector's storage... *)
Address(t) ==
    /\ pc[t] = "ready"
    /\ ops[t] < MaxOps
    /\ address' = [address EXCEPT ![t] = storage[handle[t].class]]
    /\ \E b \in By : by' = [by EXCEPT ![t] = b]
    /\ Goto(t, "addressed")
    /\ UNCHANGED <<registryVars, handle, current, ops>>

InPlace(t) == address[t] = storage[handle[t].class]

(* ... then the pointer to the cell.  From there on the vector is not used.   *)
Index(t) ==
    /\ pc[t] = "addressed"
    /\ InPlace(t)
    /\ handle[t].id < Len(cells[handle[t].class])
    /\ Goto(t, "indexed")
    /\ UNCHANGED <<registryVars, handle, address, by, current, ops>>

(* operator[] checks nothing: a handle whose cell was never made reads past  *)
(* the end of the vector, and what follows is undefined.                     *)
IndexPastEnd(t) ==
    /\ pc[t] = "addressed"
    /\ InPlace(t)
    /\ handle[t].id >= Len(cells[handle[t].class])
    /\ Goto(t, "undefined")
    /\ UNCHANGED <<registryVars, handle, address, by, current, ops>>

(* The storage has moved since its address was read: a read of freed memory. *)
IndexStale(t) ==
    /\ pc[t] = "addressed"
    /\ ~ InPlace(t)
    /\ Goto(t, "stale")
    /\ UNCHANGED <<registryVars, handle, address, by, current, ops>>

Value(t) == cells[handle[t].class][handle[t].id + 1]
Recorded(t) == history[handle[t].class][handle[t].id + 1]

(* Variant: a cell wider than the code's. *)
SumUnbounded(t, v) == v + by[t]

(* An unsigned wraps around; a float stops growing where its mantissa ends. *)
Sum(t, v) ==
    IF handle[t].class = "counter" THEN (v + by[t]) % Modulus
    ELSE IF v + by[t] < Modulus THEN v + by[t] ELSE v

(* The operation stores v in its cell; w is what it should have stored. *)
Store(t, v, w) ==
    LET k == handle[t].class
        i == handle[t].id + 1
    IN  /\ cells' = [cells EXCEPT ![k][i] = v]
        /\ history' = [history EXCEPT ![k][i] = w]
        /\ ops' = [ops EXCEPT ![t] = @ + 1]
        /\ Goto(t, "ready")
        /\ UNCHANGED <<mutex, ids, storage, failed, handle, address, by, current>>

(* Counter_c::inc, += and ++: one atomic addition. *)
CounterInc(t) ==
    /\ pc[t] = "indexed" /\ handle[t].class = "counter"
    /\ Store(t, Sum(t, Value(t)), Sum(t, Recorded(t)))

(* reset, set and =: one atomic store.  A counter can only be reset. *)
SetTo(t) ==
    /\ pc[t] = "indexed"
    /\ \E v \in IF handle[t].class = "gauge" THEN To \cup {0} ELSE {0} :
          Store(t, v, v)

(* Gauge_c::inc, lines 54-55: load, then compare and exchange until it works. *)
(* A failed exchange, spurious or not, leaves the cell's value in `current`.  *)
GaugeLoad(t) ==
    /\ pc[t] = "indexed" /\ handle[t].class = "gauge"
    /\ current' = [current EXCEPT ![t] = Value(t)]
    /\ Goto(t, "loaded")
    /\ UNCHANGED <<registryVars, handle, address, by, ops>>

(* Variant: a store in place of the exchange. *)
GaugeExchangeBlind(t) ==
    /\ pc[t] = "loaded"
    /\ Store(t, Sum(t, current[t]), Sum(t, Recorded(t)))

GaugeExchange(t) ==
    /\ pc[t] = "loaded"
    /\ Value(t) = current[t]
    /\ Store(t, Sum(t, current[t]), Sum(t, Recorded(t)))

GaugeRetry(t) ==
    /\ pc[t] = "loaded"
    /\ Value(t) # current[t]
    /\ current' = [current EXCEPT ![t] = Value(t)]
    /\ UNCHANGED <<registryVars, pc, handle, address, by, ops>>

Register(t) == \/ Lock(t) \/ Found(t) \/ NewId(t) \/ NewIdThrows(t)
               \/ Emplace(t) \/ EmplaceThrows(t)
Use(t) == \/ Address(t) \/ Index(t) \/ IndexPastEnd(t) \/ IndexStale(t)
          \/ CounterInc(t) \/ SetTo(t)
          \/ GaugeLoad(t) \/ GaugeExchange(t) \/ GaugeRetry(t)

Next == \E t \in Thread : Register(t) \/ Use(t)

(* Every thread runs, and a mutex that is free again and again is obtained. *)
(* No exchange fails spuriously for ever: a spurious failure is a stutter.  *)
Fairness == \A t \in Thread : SF_vars(Lock(t)) /\ WF_vars(Register(t) \/ Use(t))

Spec == Init /\ [][Next]_vars /\ Fairness

-----------------------------------------------------------------------------
TypeOK ==
    /\ mutex \in [Class -> Thread \cup {NoThread}]
    /\ \A k \in Class : /\ DOMAIN ids[k] \subseteq Name
                         /\ ids[k] \in [DOMAIN ids[k] -> Nat]
    /\ cells \in [Class -> Seq(0 .. Modulus - 1)]
    /\ history \in [Class -> Seq(0 .. Modulus - 1)]
    /\ storage \in [Class -> Nat]
    /\ pc \in [Thread -> Label]
    /\ handle \in [Thread -> Handle]
    /\ address \in [Thread -> Nat]
    /\ by \in [Thread -> Nat]
    /\ current \in [Thread -> 0 .. Modulus - 1]
    /\ ops \in [Thread -> 0 .. MaxOps]
    /\ failed \in [Class -> SUBSET Name]

(* Threads that register at the same time never make two names share a cell: *)
(* two names of a class have one id only when the registration of one of     *)
(* them threw between counterIds[name] = id and emplace_back (lines 15-16).  *)
NamesOwnTheirCells ==
    \A k \in Class : \A m, n \in DOMAIN ids[k] :
        ids[k][m] = ids[k][n] => m = n \/ m \in failed[k] \/ n \in failed[k]

(* A handle reads past the end of its vector (counters[id], Telemetry.h:16)  *)
(* only after an emplace_back of its class threw, whoever is registering     *)
(* meanwhile: a handle is not there before its cell is.                      *)
UndefinedOnlyAfterFailure ==
    \A t \in Thread : pc[t] = "undefined" => failed[handle[t].class] # {}

(* No update is lost: a cell holds its last store plus every increment since, *)
(* whatever threads exchanged in between (inc, lines 52-56).                  *)
NoLostUpdate == cells = history

(* The storage can be pulled away between the two reads of counters[id]      *)
(* (Telemetry.h:16): the code does not prevent it.  What it comes down to:   *)
(* only the first registration of another name that comes after the          *)
(* handle's in the vector does it (or, where an emplace_back threw, shares   *)
(* its id).  Constructing handles of known names beside it never does, so    *)
(* one counter and one gauge (Window.cpp:431-432) are safe in any number of  *)
(* threads, and two names are not.                                           *)
StaleOnlyAfterLaterName ==
    \A t \in Thread : pc[t] = "stale" =>
        \E n \in DOMAIN ids[handle[t].class] \ {handle[t].name} :
            ids[handle[t].class][n] >= handle[t].id

(* Every thread gets its handle or an exception, and its operations end: the *)
(* guard unlocks on every path, and the exchange loop comes to an end.       *)
EveryThreadFinishes ==
    \A t \in Thread : <>(\/ pc[t] \in {"gone", "undefined", "stale"}
                         \/ pc[t] = "ready" /\ ops[t] = MaxOps)
=============================================================================
