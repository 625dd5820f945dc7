------------------------------ MODULE Registry ------------------------------
(***************************************************************************)
(* The functions of other boards as this board knows them                  *)
(* (main/lib/functions/functions.cpp, R_REQ in main/coapcallback.cpp).     *)
(*                                                                         *)
(* A board announces each of its functions with R_REQ, repeated until an   *)
(* R_ACK arrives.  The handler looks the function up in a linked list,     *)
(* gives a new one the next number, links it in, writes it to              *)
(* function.bin at the index of its number, and sends the number back: the *)
(* board will name the function by that number in its events.  A restart   *)
(* numbers the local functions first and then, in the order of the file,   *)
(* the remote ones.                                                        *)
(*                                                                         *)
(* Each transport has a task that runs the handler, one message at a time; *)
(* the handlers of two transports share the list and the counter without a *)
(* lock.                                                                   *)
(***************************************************************************)
EXTENDS Integers, FiniteSets

CONSTANTS NoKey,
          Keys,        \* functions of other boards: (register_device_id, register_id)
          Boards,
          BoardOf,     \* the board a function is on
          Lines,       \* transports
          Tasks,       \* register_all tasks that may exist together
          Locals,      \* functions of config.json
          MAX_DEVICE,  \* function.bin is erased and read back below this index
          MaxNumber    \* bound: the highest number given out in the model

ASSUME KeyAssumption == NoKey \notin Keys
ASSUME BoardAssumption == BoardOf \in [Keys -> Boards]
\* the numbers a boot gives out stay within the bound
ASSUME NumberAssumption == /\ Locals \in Nat /\ MAX_DEVICE \in Nat \ {0} /\ MaxNumber \in Nat
                           /\ Locals + MAX_DEVICE - 1 <= MaxNumber

VARIABLES list,     \* the remote functions of the linked list: [key, num]
          counter,  \* Function_Counter
          rec,      \* function.bin
          emptied,  \* GlobalConfig.start_value = 3: function.bin is not read at boot
          pc,       \* where the handler of a transport is
          cur,      \* the function its message names
          num,      \* the number it has for it
          seen,     \* the list behind the `next` of its new node
          left,     \* the boards a register_all task has still to ask
          pending,  \* the functions whose boards repeat R_REQ
          told,     \* the number of the last R_ACK a board received
          line,     \* rigid: the transport of a board
          calm      \* rigid: restarts come only with the file up to date

vars == <<list, counter, rec, emptied, pc, cur, num, seen, left, pending, told, line, calm>>

-----------------------------------------------------------------------------
Numbers == 1..MaxNumber
Places == {"idle", "read", "count", "link", "publish", "store", "ack"}
Nodes == [key : Keys, num : Numbers]

Keyed(k) == {x \in list : x.key = k}

Init == /\ list = {} /\ counter = Locals
        /\ rec = [i \in Numbers |-> NoKey] /\ emptied = FALSE
        /\ pc = [l \in Lines |-> "idle"] /\ cur = [l \in Lines |-> NoKey]
        /\ num = [l \in Lines |-> 0] /\ seen = [l \in Lines |-> {}]
        /\ left = [t \in Tasks |-> {}]
        /\ pending = {} /\ told = [k \in Keys |-> 0]
        /\ line \in [Boards -> Lines] /\ calm \in BOOLEAN

-----------------------------------------------------------------------------
(* R_REQ *)

\* mutant: a function that is listed already is not looked for
FindNot(l, k) == /\ pc[l] = "idle" /\ k \in pending /\ l = line[BoardOf[k]]
                 /\ cur' = [cur EXCEPT ![l] = k]
                 /\ pc' = [pc EXCEPT ![l] = "read"]
                 /\ UNCHANGED <<list, counter, rec, emptied, num, seen, left, pending, told, line, calm>>
\* find_register
Find(l, k) == /\ pc[l] = "idle" /\ k \in pending /\ l = line[BoardOf[k]]
              /\ cur' = [cur EXCEPT ![l] = k]
              /\ \/ /\ Keyed(k) = {}
                    /\ pc' = [pc EXCEPT ![l] = "read"] /\ UNCHANGED num
                 \/ \E x \in Keyed(k) : /\ num' = [num EXCEPT ![l] = x.num]
                                        /\ pc' = [pc EXCEPT ![l] = "store"]
              /\ UNCHANGED <<list, counter, rec, emptied, seen, left, pending, told, line, calm>>

\* genel.device_id = ++Function_Counter, after the constructor's file access
ReadCounter(l) == /\ pc[l] = "read"
                  /\ num' = [num EXCEPT ![l] = counter]
                  /\ pc' = [pc EXCEPT ![l] = "count"]
                  /\ UNCHANGED <<list, counter, rec, emptied, cur, seen, left, pending, told, line, calm>>

\* mutant: Function_Counter++
CountAfter(l) == /\ pc[l] = "count" /\ num[l] < MaxNumber
                 /\ counter' = num[l] + 1
                 /\ pc' = [pc EXCEPT ![l] = "link"]
                 /\ UNCHANGED <<list, rec, emptied, cur, num, seen, left, pending, told, line, calm>>
Count(l) == /\ pc[l] = "count" /\ num[l] < MaxNumber
            /\ counter' = num[l] + 1
            /\ num' = [num EXCEPT ![l] = num[l] + 1]
            /\ pc' = [pc EXCEPT ![l] = "link"]
            /\ UNCHANGED <<list, rec, emptied, cur, seen, left, pending, told, line, calm>>

\* next = function_head_handle
Link(l) == /\ pc[l] = "link"
           /\ seen' = [seen EXCEPT ![l] = list]
           /\ pc' = [pc EXCEPT ![l] = "publish"]
           /\ UNCHANGED <<list, counter, rec, emptied, cur, num, left, pending, told, line, calm>>

\* mutant: the identifiers of the new node are never set
PublishUnnamed(l) == /\ pc[l] = "publish"
                     /\ list' = seen[l] \cup {[key |-> NoKey, num |-> num[l]]}
                     /\ seen' = [seen EXCEPT ![l] = {}]
                     /\ pc' = [pc EXCEPT ![l] = "store"]
                     /\ UNCHANGED <<counter, rec, emptied, cur, num, left, pending, told, line, calm>>
\* function_head_handle = bb0: the list is now the new node and what its
\* `next` leads to
Publish(l) == /\ pc[l] = "publish"
              /\ list' = seen[l] \cup {[key |-> cur[l], num |-> num[l]]}
              /\ seen' = [seen EXCEPT ![l] = {}]
              /\ pc' = [pc EXCEPT ![l] = "store"]
              /\ UNCHANGED <<counter, rec, emptied, cur, num, left, pending, told, line, calm>>

\* write_file at the index of the number
Store(l) == /\ pc[l] = "store"
            /\ rec' = [rec EXCEPT ![num[l]] = cur[l]]
            /\ pc' = [pc EXCEPT ![l] = "ack"]
            /\ UNCHANGED <<list, counter, emptied, cur, num, seen, left, pending, told, line, calm>>

\* reg_ok_task sends R_ACK.  It may be lost; when it arrives, an R_REQ the
\* board has repeated meanwhile may still be on its way.
Ack(l) == /\ pc[l] = "ack"
          /\ \/ UNCHANGED <<told, pending>>
             \/ /\ told' = [told EXCEPT ![cur[l]] = num[l]]
                /\ pending' \in {pending, pending \ {cur[l]}}
          /\ cur' = [cur EXCEPT ![l] = NoKey] /\ num' = [num EXCEPT ![l] = 0]
          /\ pc' = [pc EXCEPT ![l] = "idle"]
          /\ UNCHANGED <<list, counter, rec, emptied, seen, left, line, calm>>

-----------------------------------------------------------------------------
(* register_all: the button, held, starts a task every two seconds; CPU 1 *)
(* can start one with COM_rereg.                                          *)

\* function_file_format
Erased == [i \in Numbers |-> IF i < MAX_DEVICE THEN NoKey ELSE rec[i]]

RegisterAll(t) == /\ left[t] = {}
                  /\ rec' = Erased
                  /\ left' = [left EXCEPT ![t] = Boards]
                  /\ UNCHANGED <<list, counter, emptied, pc, cur, num, seen, pending, told, line, calm>>

\* R_REG, if it arrives, makes a board announce all its functions.  The task
\* goes on when the board has answered or when ten seconds have passed, so at
\* any time.
Ask(t, b) == /\ b \in left[t]
             /\ left' = [left EXCEPT ![t] = @ \ {b}]
             /\ pending' \in {pending, pending \cup {k \in Keys : BoardOf[k] = b}}
             /\ UNCHANGED <<list, counter, rec, emptied, pc, cur, num, seen, told, line, calm>>

-----------------------------------------------------------------------------
(* Boot: Read_functions numbers the local functions, config() then adds *)
(* the functions of the file (function_remote_re_register).             *)
Stored(r) == {i \in Numbers : i < MAX_DEVICE /\ r[i] # NoKey}

\* mutant: find_register is not asked before a stored function is added
KeptAll(r) == Stored(r)
Kept(r) == {i \in Stored(r) : \A j \in Stored(r) : j < i => r[j] # r[i]}

\* mutant: the counter starts at zero for the functions of the file
RestoredOver(r) == {[key |-> r[i], num |-> Cardinality({j \in Kept(r) : j <= i})] : i \in Kept(r)}
Restored(r) == {[key |-> r[i], num |-> Locals + Cardinality({j \in Kept(r) : j <= i})] : i \in Kept(r)}

Boot(r, empty) ==
    /\ list' = IF empty THEN {} ELSE Restored(r)
    /\ counter' = IF empty THEN Locals ELSE Locals + Cardinality(Kept(r))
    /\ rec' = r /\ emptied' = empty
    /\ pc' = [l \in Lines |-> "idle"] /\ cur' = [l \in Lines |-> NoKey]
    /\ num' = [l \in Lines |-> 0] /\ seen' = [l \in Lines |-> {}]
    /\ left' = [t \in Tasks |-> {}]
    /\ UNCHANGED <<pending, told, line, calm>>

\* Every function of the list that the next boot reads is in the file.
Settled == \A x \in list : x.num < MAX_DEVICE => rec[x.num] = x.key

\* A restart of any cause, at any point of a handler; the button, held for
\* five seconds, also sets start_value to 1.
Restart == \E byButton \in BOOLEAN :
               /\ calm => Settled
               /\ Boot(rec, emptied /\ ~byButton)

\* COM_idcall, refresh_device: erases the file and restarts with an empty
\* list, or, the second time, lets the next boot read the file again.
Refresh == /\ ~calm
           /\ IF emptied
              THEN /\ emptied' = FALSE
                   /\ UNCHANGED <<list, counter, rec, pc, cur, num, seen, left, pending, told, line, calm>>
              ELSE Boot(Erased, TRUE)

-----------------------------------------------------------------------------
Handle(l) == \/ \E k \in Keys : Find(l, k)
             \/ ReadCounter(l) \/ Count(l) \/ Link(l) \/ Publish(l) \/ Store(l) \/ Ack(l)

Next == \/ \E l \in Lines : Handle(l)
        \/ \E t \in Tasks : RegisterAll(t) \/ \E b \in Boards : Ask(t, b)
        \/ Restart \/ Refresh

Spec == Init /\ [][Next]_vars

-----------------------------------------------------------------------------
\* Every value has its range.
TypeOK ==
    /\ list \subseteq Nodes /\ counter \in 0..MaxNumber
    /\ rec \in [Numbers -> Keys \cup {NoKey}] /\ emptied \in BOOLEAN
    /\ pc \in [Lines -> Places] /\ cur \in [Lines -> Keys \cup {NoKey}]
    /\ num \in [Lines -> 0..MaxNumber] /\ seen \in [Lines -> SUBSET Nodes]
    /\ left \in [Tasks -> SUBSET Boards]
    /\ pending \subseteq Keys /\ told \in [Keys -> 0..MaxNumber]
    /\ line \in [Boards -> Lines] /\ calm \in BOOLEAN

\* A function is listed at most once, whatever the repeated requests, the
\* erasures and the restarts: find_register finds the only node there is.  It
\* holds with one transport and with two whose handlers overlap; with three,
\* a lost node that comes back makes a second entry possible.
OneEntryPerFunction == \A x, y \in list : x.key = y.key => x = y

\* All the boards are on one transport: the handlers do not overlap.
Serial == \A b, c \in Boards : line[b] = line[c]

\* Without overlapping handlers no two functions share a number and none has
\* that of a local function: function_find has one answer.
DistinctNumbers ==
    Serial => \A x \in list : /\ x.num > Locals
                              /\ \A y \in list : x.num = y.num => x = y

\* Without overlapping handlers, and without a restart between the erasing of
\* the file and the registrations that fill it again, the number a board was
\* told stays that of its function, across restarts, if it is below MAX_DEVICE.
AckedFunctionIsListed ==
    Serial /\ calm =>
        \A k \in Keys : told[k] \in 1..(MAX_DEVICE - 1) => [key |-> k, num |-> told[k]] \in list

\* E_REQ tells the state a board sends to the function that has the number
\* the board was given: never to that of another board.
EventReachesOwner ==
    Serial => \A k \in Keys : \A x \in list : x.num = told[k] => x.key = k

=============================================================================
