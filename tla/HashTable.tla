----------------------------- MODULE HashTable ------------------------------
(***************************************************************************)
(* The hash map of src/khash.h that rules are kept in, from integers to    *)
(* integers: open addressing with a second step width, in a prime number   *)
(* of buckets.  Nothing is ever deleted from a table that stays in use, so *)
(* a bucket is empty or live; while the table grows it may also have been  *)
(* moved.                                                                  *)
(***************************************************************************)
EXTENDS Integers, FiniteSetsExt

\* __ac_prime_list, which goes on; enough for 400 rules.
Primes == {3, 11, 23, 53, 97, 193, 389, 769}

\* The smallest prime of the list above what is asked for.
BucketsFor(asked) == Min({p \in Primes : p > asked})

\* (khint_t)(n * 0.77 + 0.5): with this many keys the table grows before the next.
UpperBound(n) == (77 * n + 50) \div 100

\* The bucket of a key's probe number `turn' among n.
Probe(key, n, turn) == ((key % n) + turn * (1 + (key % (n - 1)))) % n

\* The first probe among the buckets to stop at, n if there is none.
FirstProbe(key, n, stops) ==
    LET turns == {turn \in 0..(n - 1) : Probe(key, n, turn) \in stops}
    IN  IF turns = {} THEN n ELSE Probe(key, n, Min(turns))

NoTable == [n |-> 0, size |-> 0, flags |-> <<>>, keys |-> <<>>, vals |-> <<>>]

\* kh_init, and kh_resize of a table without buckets.
EmptyTable(asked) ==
    LET all == 0..(BucketsFor(asked) - 1)
    IN  [n |-> BucketsFor(asked), size |-> 0, flags |-> [b \in all |-> "empty"],
         keys |-> [b \in all |-> 0], vals |-> [b \in all |-> 0]]

Live(h) == {b \in 0..(h.n - 1) : h.flags[b] = "live"}

\* kh_get and kh_put look for the key and stop at an empty bucket as well.
SiteOf(h, key) ==
    FirstProbe(key, h.n, {b \in DOMAIN h.flags : h.flags[b] = "empty" \/ h.keys[b] = key})

\* Variant: a live bucket on the key's first probe is taken for its own.
HasFirst(h, key) == h.flags[key % h.n] = "live"

Has(h, key) == LET b == SiteOf(h, key) IN b # h.n /\ h.flags[b] = "live"

\* kh_put of a key that is not there, and kh_value of its bucket.
With(h, key, val) ==
    LET b == SiteOf(h, key)
    IN  [h EXCEPT !.flags[b] = "live", !.keys[b] = key, !.vals[b] = val, !.size = @ + 1]
-----------------------------------------------------------------------------
(* kh_resize to more buckets.  The arrays of keys and values are extended  *)
(* and serve the old table and the new one at once: only which buckets are *)
(* taken is kept apart.  The key in hand is placed where the new table     *)
(* wants it, and whatever key of the old one is there is taken in hand.    *)

NoHand == [key |-> 0, val |-> 0]

NoGrowth == [n |-> 0, flags |-> <<>>, hand |-> NoHand]

\* realloc of the arrays, all flags of the new table empty.
Extended(h, n) ==
    [h EXCEPT !.keys = [b \in 0..(n - 1) |-> IF b < h.n THEN @[b] ELSE 0],
              !.vals = [b \in 0..(n - 1) |-> IF b < h.n THEN @[b] ELSE 0]]

Growth(n) == [n |-> n, flags |-> [b \in 0..(n - 1) |-> "empty"], hand |-> NoHand]

\* Where the new table wants the key in hand.
Place(growth) ==
    FirstProbe(growth.hand.key, growth.n, {b \in DOMAIN growth.flags : growth.flags[b] = "empty"})

Placed(growth, hand) == [growth EXCEPT !.flags[Place(growth)] = "live", !.hand = hand]

Moved(h, b) == [h EXCEPT !.flags[b] = "moved"]

Stored(h, b, hand) == [h EXCEPT !.keys[b] = hand.key, !.vals[b] = hand.val]

\* The old flags are freed; the table is the new one.
Grown(h, growth) == [h EXCEPT !.n = growth.n, !.flags = growth.flags]
=============================================================================
