------------------------------- MODULE Atomic -------------------------------
(***************************************************************************)
(* detail::AtomicIntegerT<T> of src/muduo/thread/Atomic.h as operators on  *)
(* the value_ it holds.  Both typedefs, AtomicInt32 and AtomicInt64, take  *)
(* T = int, so every value is a Bits-bit two's-complement integer: the     *)
(* __sync builtins wrap, and getAndAdd(x) + x, a signed int addition, is   *)
(* what the build emits for it (an add that wraps).  An operation that     *)
(* returns a value and changes value_ gives the pair <<result, value_'>>.  *)
(***************************************************************************)
EXTENDS Integers

CONSTANT Bits   \* width of T; 32 for int, scaled down for TLC

ASSUME Bits \in Nat \ {0}

IntMin == -(2^(Bits - 1))
IntMax == 2^(Bits - 1) - 1

\* The Bits-bit two's-complement value of the mathematical integer x.
Wrap(x) == ((x - IntMin) % 2^Bits) + IntMin

\* AtomicIntegerT(): value_(0).
NewAtomic == 0

\* get(): a compare-and-swap of 0 with 0 returns value_ unchanged.
Get(v) == v

\* getAndAdd(x): __sync_fetch_and_add returns the old value.
GetAndAdd(v, x) == <<v, Wrap(v + x)>>

\* addAndGet(x): getAndAdd(x) + x.
AddAndGet(v, x) ==
    LET r == GetAndAdd(v, x) IN <<Wrap(r[1] + x), r[2]>>

\* incrementAndGet(): addAndGet(1).
IncrementAndGet(v) == AddAndGet(v, 1)

\* add(x): getAndAdd(x) with the result dropped.
Add(v, x) == GetAndAdd(v, x)[2]

\* increment(): incrementAndGet() with the result dropped.
Increment(v) == IncrementAndGet(v)[2]

\* decrement(): getAndAdd(-1).
Decrement(v) == GetAndAdd(v, -1)[2]

\* getAndSet(x): __sync_lock_test_and_set stores x, returns the old value.
GetAndSet(v, x) == <<v, x>>
=============================================================================
