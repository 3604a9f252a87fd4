------------------------------ MODULE Pthread ------------------------------
(***************************************************************************)
(* The calls of src/newlib_shim/pthread.c, for the one thread there is:    *)
(* mutexes, once controls and thread specific data keep state, all other   *)
(* calls only return an error.  errno is left out.                         *)
(*                                                                         *)
(* The nodes of the list of keys are linked in one way only, so that the   *)
(* list is a sequence here.                                                *)
(***************************************************************************)
EXTENDS Integers, Sequences, FiniteSetsExt, Lists

CONSTANTS
  Mutexes,     \* the mutexes of the client
  Onces,       \* its once controls
  Values,      \* values the client stores, other than NULL
  NoValue,     \* NULL
  MaxKeys,     \* keys in use at a time, bounds the model
  MaxHeld,     \* nested locks of a mutex, bounds the model
  MaxDepth     \* routines that run inside of each other, bounds the model

ASSUME PthreadAssumption ==
  /\ NoValue \notin Values
  /\ MaxKeys \in Nat /\ MaxHeld \in Nat /\ MaxDepth \in Nat

VARIABLES
  mutex,       \* the flags that are set in each mutex
  held,        \* locks of a mutex that were not unlocked, history only
  init_executed, \* the once controls whose routine has returned
  running,     \* the controls whose routines are running, innermost last
  runs,        \* how often each routine was called, history only
  key_root,    \* the list of keys
  ret          \* what the last call returned: its code, the key it made or
               \* was called with, and the value it found

lock == <<mutex, held>>
once == <<init_executed, running, runs>>
vars == <<lock, once, key_root, ret>>

EPERM == 1
EAGAIN == 11
ENOMEM == 12
EBUSY == 16
EINVAL == 22
EDEADLK == 45
ENOSYS == 88
ENOTRECOVERABLE == 141

NoKey == -1
Flags == {"locked", "recursive", "destroyed"}

Returns(code) == ret' = [code |-> code, key |-> NoKey, value |-> NoValue]

Fails(code) == Returns(code) /\ UNCHANGED <<lock, once, key_root>>

-----------------------------------------------------------------------------
(* Mutexes.                                                                *)

pthread_mutex_init(m, recursive) ==
  /\ mutex' = [mutex EXCEPT ![m] = IF recursive THEN {"recursive"} ELSE {}]
  /\ held' = [held EXCEPT ![m] = 0]
  /\ Returns(0)
  /\ UNCHANGED <<once, key_root>>

(* Faulty: a locked mutex is destroyed.                                    *)
pthread_mutex_destroy_Locked(m) ==
  \/ "destroyed" \in mutex[m] /\ Fails(EINVAL)
  \/ /\ "destroyed" \notin mutex[m]
     /\ mutex' = [mutex EXCEPT ![m] = @ \cup {"destroyed"}]
     /\ Returns(0)
     /\ UNCHANGED <<held, once, key_root>>

pthread_mutex_destroy(m) ==
  \/ "destroyed" \in mutex[m] /\ Fails(EINVAL)
  \/ "destroyed" \notin mutex[m] /\ "locked" \in mutex[m] /\ Fails(EBUSY)
  \/ /\ "destroyed" \notin mutex[m] /\ "locked" \notin mutex[m]
     /\ mutex' = [mutex EXCEPT ![m] = @ \cup {"destroyed"}]
     /\ Returns(0)
     /\ UNCHANGED <<held, once, key_root>>

(* trylock, and lock, which calls it.                                      *)
pthread_mutex_trylock(m) ==
  \/ "destroyed" \in mutex[m] /\ Fails(EINVAL)
  \/ /\ mutex[m] = {"locked"}
     /\ Fails(EDEADLK)
  \/ /\ "destroyed" \notin mutex[m] /\ mutex[m] # {"locked"}
     /\ held[m] < MaxHeld
     /\ mutex' = [mutex EXCEPT ![m] = @ \cup {"locked"}]
     /\ held' = [held EXCEPT ![m] = @ + 1]
     /\ Returns(0)
     /\ UNCHANGED <<once, key_root>>

pthread_mutex_unlock(m) ==
  \/ "destroyed" \in mutex[m] /\ Fails(EINVAL)
  \/ "destroyed" \notin mutex[m] /\ "locked" \notin mutex[m] /\ Fails(EPERM)
  \/ /\ "destroyed" \notin mutex[m] /\ "locked" \in mutex[m]
     /\ mutex' = [mutex EXCEPT ![m] = @ \ {"locked"}]
     /\ held' = [held EXCEPT ![m] = @ - 1]
     /\ Returns(0)
     /\ UNCHANGED <<once, key_root>>

-----------------------------------------------------------------------------
(* Once controls.  The routine is code of the client, which may make any   *)
(* call, this one included.                                                *)

pthread_once(o) ==
  \/ o \in init_executed /\ Fails(0)
  \/ /\ o \notin init_executed /\ Len(running) < MaxDepth
     /\ running' = Append(running, o)
     /\ runs' = [runs EXCEPT ![o] = @ + 1]
     /\ UNCHANGED <<lock, init_executed, key_root, ret>>

(* Faulty: the flag is not set.                                            *)
init_routine_returns_Unmarked ==
  /\ running # <<>>
  /\ running' = Front(running)
  /\ Returns(0)
  /\ UNCHANGED <<lock, init_executed, runs, key_root>>

(* The innermost routine returns, and then pthread_once.                   *)
init_routine_returns ==
  /\ running # <<>>
  /\ running' = Front(running)
  /\ init_executed' = init_executed \cup {Last(running)}
  /\ Returns(0)
  /\ UNCHANGED <<lock, runs, key_root>>

-----------------------------------------------------------------------------
(* Calls that are not supported: they change nothing, apart from errno,    *)
(* which is not part of this module.                                       *)

pthread_mutexattr == \E code \in {EINVAL, ENOSYS} : Fails(code)

pthread_mutex_timedlock == Fails(ENOSYS)

pthread_mutex_consistent == Fails(ENOSYS)

pthread_rwlock == \E code \in {EPERM, EINVAL} : Fails(code)

pthread_cond == \E code \in {EAGAIN, EINVAL, ENOSYS, ENOTRECOVERABLE} : Fails(code)

pthread_barrier == Fails(ENOSYS)

(* self returns 0, create, join, detach, cancel, kill and the settings of  *)
(* cancellation fail.                                                      *)
pthread_thread == \E code \in {0, EPERM, EINVAL, ENOSYS} : Fails(code)

pthread_atfork == Fails(ENOMEM)

Unsupported ==
  \/ pthread_mutexattr \/ pthread_mutex_timedlock \/ pthread_mutex_consistent
  \/ pthread_rwlock \/ pthread_cond \/ pthread_barrier \/ pthread_thread \/ pthread_atfork

-----------------------------------------------------------------------------
(* Keys.                                                                   *)

(* The positions of key in the list.                                       *)
At(key) == {i \in DOMAIN key_root : key_root[i].key = key}

(* The node that a new one is put behind: the first one that is the last   *)
(* or whose successor does not have the next key.                          *)
Gap == Min({i \in DOMAIN key_root :
             i < Len(key_root) => key_root[i + 1].key # key_root[i].key + 1})

pthread_key_create ==
  LET key == IF key_root = <<>> THEN 0 ELSE key_root[Gap].key + 1
      pos == IF key_root = <<>> THEN 1 ELSE Gap + 1
  IN  /\ Len(key_root) < MaxKeys
      /\ key_root' = InsertAt(key_root, pos, [key |-> key, content |-> NoValue])
      /\ ret' = [code |-> 0, key |-> key, value |-> NoValue]
      /\ UNCHANGED <<lock, once>>

pthread_getspecific(key) ==
  /\ ret' = [code  |-> 0, key |-> key,
             value |-> IF At(key) = {} THEN NoValue ELSE key_root[Min(At(key))].content]
  /\ UNCHANGED <<lock, once, key_root>>

pthread_setspecific(key, value) ==
  \/ /\ At(key) = {}
     /\ ret' = [code |-> EINVAL, key |-> key, value |-> NoValue]
     /\ UNCHANGED <<lock, once, key_root>>
  \/ /\ At(key) # {}
     /\ key_root' = [key_root EXCEPT ![Min(At(key))].content = value]
     /\ ret' = [code |-> 0, key |-> key, value |-> NoValue]
     /\ UNCHANGED <<lock, once>>

(* Faulty: the first node is removed, whatever its key.                    *)
pthread_key_delete_First(key) ==
  \/ /\ key_root = <<>>
     /\ ret' = [code |-> EINVAL, key |-> key, value |-> NoValue]
     /\ UNCHANGED <<lock, once, key_root>>
  \/ /\ key_root # <<>>
     /\ key_root' = Tail(key_root)
     /\ ret' = [code |-> 0, key |-> key, value |-> NoValue]
     /\ UNCHANGED <<lock, once>>

pthread_key_delete(key) ==
  \/ /\ At(key) = {}
     /\ ret' = [code |-> EINVAL, key |-> key, value |-> NoValue]
     /\ UNCHANGED <<lock, once, key_root>>
  \/ /\ At(key) # {}
     /\ key_root' = RemoveAt(key_root, Min(At(key)))
     /\ ret' = [code |-> 0, key |-> key, value |-> NoValue]
     /\ UNCHANGED <<lock, once>>

-----------------------------------------------------------------------------
Init ==
  /\ mutex = [m \in Mutexes |-> {}]
  /\ held = [m \in Mutexes |-> 0]
  /\ init_executed = {}
  /\ running = <<>>
  /\ runs = [o \in Onces |-> 0]
  /\ key_root = <<>>
  /\ ret = [code |-> 0, key |-> NoKey, value |-> NoValue]

Next ==
  \/ \E m \in Mutexes, recursive \in BOOLEAN : pthread_mutex_init(m, recursive)
  \/ \E m \in Mutexes : pthread_mutex_destroy(m)
  \/ \E m \in Mutexes : pthread_mutex_trylock(m)
  \/ \E m \in Mutexes : pthread_mutex_unlock(m)
  \/ \E o \in Onces : pthread_once(o)
  \/ init_routine_returns
  \/ Unsupported
  \/ pthread_key_create
  \/ \E key \in 0 .. MaxKeys : pthread_getspecific(key)
  \/ \E key \in 0 .. MaxKeys, value \in Values : pthread_setspecific(key, value)
  \/ \E key \in 0 .. MaxKeys : pthread_key_delete(key)

Spec == Init /\ [][Next]_vars

-----------------------------------------------------------------------------
(* A mutex that is not recursive is locked exactly while it is held, and   *)
(* no mutex is destroyed while it is locked.                               *)
LockedWhileHeld ==
  \A m \in Mutexes :
    /\ "recursive" \notin mutex[m] => (IF "locked" \in mutex[m] THEN 1 ELSE 0) = held[m]
    /\ "locked" \in mutex[m] => "destroyed" \notin mutex[m]

(* A routine is called a second time only from inside of itself, and not   *)
(* once pthread_once has returned for its control.                         *)
RunsOnce ==
  [][\A o \in Onces : runs'[o] > runs[o] =>
       runs[o] = Cardinality({i \in DOMAIN running : running[i] = o})]_vars

(* The keys are strictly sorted however they are made and deleted, which   *)
(* is what lets create find one that is not used.                          *)
KeysSorted ==
  \A i \in 1 .. Len(key_root) - 1 : key_root[i].key < key_root[i + 1].key

(* The list implements a table from keys to values.                        *)
Table == INSTANCE KeyTable WITH
  table  <- [k \in {key_root[i].key : i \in DOMAIN key_root} |->
               key_root[Min(At(k))].content],
  answer <- ret

ServesTable == Table!Spec

(* "meaning the current (and only) thread does not hold the lock"          *)
(* (unlock, on why it returns EPERM).                                      *)
RefusedWhenNotHeld ==
  [][\A m \in Mutexes : pthread_mutex_unlock(m) /\ ret'.code = EPERM => held[m] = 0]_vars
=============================================================================
