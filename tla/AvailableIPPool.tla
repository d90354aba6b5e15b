--------------------------- MODULE AvailableIPPool ---------------------------
(***************************************************************************)
(* AvailableIPPool.swift: the pool that hands out the disguised addresses. *)
(* Its state is one atomic word.  loadThenWrappingIncrement is a sequence  *)
(* of up to three atomic operations, and calls of several tasks interleave *)
(* between them.  AvailableIPv6Pool.swift is the same code on 128 bits.    *)
(***************************************************************************)
EXTENDS Naturals

CONSTANTS
    Caller,         \* the tasks that ask for addresses
    Modulus,        \* number of addresses: 2^32 in the code
    Pools,          \* the [lower, upper] a pool may be created with
    MaxOvertaken    \* bound: increments other calls make during one call

ASSUME PoolsAssumption ==
    /\ Modulus \in Nat /\ MaxOvertaken \in Nat
    /\ \A p \in Pools : p.lower \in Nat /\ p.upper \in Nat /\ p.upper < Modulus

VARIABLES
    bounds,     \* the pool's range
    storage,    \* the atomic word
    pc,         \* the next atomic operation of each caller's call
    address,    \* the address its last call returned
    overtaken,  \* increments that other calls made since its call started
    given       \* history: the addresses returned since the last repetition

poolVars == <<bounds, storage, pc, address, overtaken>>

None == Modulus     \* no address

\* init?(uncheckedBounds:): the block of prefix-length p that holds a.
Block(a, p, width) ==
    LET size == 2^(width - p)
    IN  [lower |-> a - (a % size), upper |-> a - (a % size) + size - 1]

PoolInit ==
    /\ bounds \in Pools
    /\ storage = bounds.lower
    /\ pc = [c \in Caller |-> "idle"]
    /\ address = [c \in Caller |-> None]
    /\ overtaken = [c \in Caller |-> 0]

Contains(a) == bounds.lower <= a /\ a <= bounds.upper

-----------------------------------------------------------------------------

\* wrappingAdd(1) by c: one atomic step, its old value is used by the call.
WrappingAdd(c) ==
    /\ \A d \in Caller \ {c} : pc[d] # "idle" => overtaken[d] < MaxOvertaken
    /\ storage' = IF storage + 1 = Modulus THEN 0 ELSE storage + 1
    /\ overtaken' = [d \in Caller |-> IF d # c /\ pc[d] # "idle" THEN overtaken[d] + 1
                                     ELSE IF pc'[d] = "idle" THEN 0
                                     ELSE overtaken[d]]

Return(c, a) ==
    /\ address' = [address EXCEPT ![c] = a]
    /\ pc' = [pc EXCEPT ![c] = "idle"]

Continue(c, label) ==
    /\ pc' = [pc EXCEPT ![c] = label]
    /\ UNCHANGED address

\* The broadcast address is skipped.
SkipUpper(c, a) ==
    \/ a = bounds.upper /\ Continue(c, "reset")
    \/ a # bounds.upper /\ Return(c, a)

\* A call starts: the first load; the network address is skipped.
Load(c) ==
    /\ pc[c] = "idle"
    /\ \/ storage = bounds.lower /\ Continue(c, "again")
       \/ storage # bounds.lower /\ SkipUpper(c, storage)
    /\ WrappingAdd(c)
    /\ UNCHANGED bounds

LoadAgain(c) ==
    /\ pc[c] = "again"
    /\ SkipUpper(c, storage)
    /\ WrappingAdd(c)
    /\ UNCHANGED bounds

\* Mutant: the pool restarts one address too far.
ResetTooFar(c) ==
    /\ pc[c] = "reset"
    /\ storage' = (bounds.lower + 2) % Modulus
    /\ Continue(c, "reload")
    /\ UNCHANGED <<bounds, overtaken>>

\* Mutant: nothing is stored.
ResetNothing(c) ==
    /\ pc[c] = "reset"
    /\ storage' = storage
    /\ Continue(c, "reload")
    /\ UNCHANGED <<bounds, overtaken>>

Reset(c) ==
    /\ pc[c] = "reset"
    /\ storage' = (bounds.lower + 1) % Modulus
    /\ Continue(c, "reload")
    /\ UNCHANGED <<bounds, overtaken>>

\* The load after a reset; its result is not examined.
Reload(c) ==
    /\ pc[c] = "reload"
    /\ Return(c, storage)
    /\ WrappingAdd(c)
    /\ UNCHANGED bounds

Step(c) == Load(c) \/ LoadAgain(c) \/ Reset(c) \/ Reload(c)

PoolNext == \E c \in Caller : Step(c)

PoolSpec == PoolInit /\ [][PoolNext]_poolVars

-----------------------------------------------------------------------------
(* The pool used by one task at a time, with the addresses it returned.    *)

tvars == <<poolVars, given>>

TInit == PoolInit /\ given = {}

Given(a) == given' = IF a \in given THEN {a} ELSE given \cup {a}

TStep(c) ==
    /\ Step(c)
    /\ \/ pc'[c] = "idle" /\ Given(address'[c])
       \/ pc'[c] # "idle" /\ UNCHANGED given

\* store(_:), which the tests call between two calls.
Store(a) ==
    /\ \A c \in Caller : pc[c] = "idle"
    /\ Contains(a)
    /\ storage' = a
    /\ given' = {}
    /\ UNCHANGED <<bounds, pc, address, overtaken>>

\* c is the only task that uses the pool.
OneTask(c) == TStep(c) \/ \E a \in 0 .. Modulus - 1 : Store(a)

-----------------------------------------------------------------------------

Usable == {a \in 0 .. Modulus - 1 : bounds.lower < a /\ a < bounds.upper}

\* Every variable has its type.
PoolTypeOK ==
    /\ bounds \in Pools
    /\ storage \in 0 .. Modulus - 1
    /\ pc \in [Caller -> {"idle", "again", "reset", "reload"}]
    /\ address \in [Caller -> 0 .. Modulus]

\* "Generate the usable IP excluding network and broadcast addresses": what
\* loadThenWrappingIncrement returns is strictly between the bounds.
AddressesUsable == \A c \in Caller : address[c] # None => address[c] \in Usable

\* Neither bound is handed out, whatever the interleaving: the network address
\* is skipped by the second load and the broadcast address by the reset, also
\* when several callers are between the two.
BoundsSkipped == \A c \in Caller : address[c] \notin {bounds.lower, bounds.upper}

\* Only one caller finds the end of the pool: a pass is restarted once.
OneResets == \A c, d \in Caller : pc[c] = "reset" /\ pc[d] = "reset" => c = d

\* The word leaves the range only while a caller is about to bring it back; the
\* pool does not run away into addresses that are not its own.
OvershootIsPending == Contains(storage) \/ \E c \in Caller : pc[c] = "reset"

\* A pool that was overrun comes back into its range.
PoolRecovers == ~Contains(storage) ~> Contains(storage)

\* An address comes back only after every other usable address was handed out:
\* loadThenWrappingIncrement reuses a disguised address as late as it can.
ReusedLast ==
    [][\A c \in Caller : TStep(c) /\ address'[c] \in given /\ pc'[c] = "idle" => given = Usable]_tvars
==============================================================================
