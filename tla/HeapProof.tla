----------------------------- MODULE HeapProof -----------------------------
(* Proofs about Heap, for every heap and every set of requests. *)
EXTENDS Heap, ListFacts

---------------------------------------------------------------------------
(* The inductive invariant, in terms of values so that the steps of an      *)
(* action can be taken one by one.                                          *)

Owners(ask) == {a \in Addr : ask[a] > 0}
EndIn(sz, a) == a + Header + sz[a]

\* The blocks of B tile the heap up to hb, and everything is aligned.
Tiled(B, sz, hb) ==
  /\ B \subseteq Addr
  /\ hb \in HEAP_START .. heap_end /\ hb % 4 = 0
  /\ sz \in [Addr -> 0 .. HEAP_SIZE]
  /\ \A a \in Addr : sz[a] % 4 = 0
  /\ HEAP_START \in B \cup {hb}
  /\ \A a \in B : /\ a < hb
                  /\ EndIn(sz, a) \in B \cup {hb}
                  /\ \A b \in B : b <= a \/ b >= EndIn(sz, a)

\* No two neighbours are both in F.
Apart(F, sz) == \A a, b \in F : EndIn(sz, a) # b

BytesOf(O, sz) ==
  {x \in HEAP_START .. heap_end - 1 : \E a \in O : a <= x /\ x < EndIn(sz, a)}

\* The magic words mark the blocks that are handed out, and nothing else.
Marks(mg, O) == mg \in [Addr -> {ALLOCATED, FREE}] /\ \A a \in Addr : mg[a] = ALLOCATED <=> a \in O

HeapOK(hb, fl, sz, mg, used, ask) ==
  /\ fl \in Seq(Addr) /\ Ascends(fl)
  /\ ask \in [Addr -> Nat]
  /\ Tiled(Owners(ask) \cup ToSet(fl), sz, hb)
  /\ Owners(ask) \cap ToSet(fl) = {}
  /\ \A a \in Owners(ask) : sz[a] >= ask[a]
  /\ Apart(ToSet(fl), sz)
  /\ Marks(mg, Owners(ask))
  /\ used = Cardinality(BytesOf(Owners(ask), sz))

HeapInv ==
  /\ HeapOK(heap_begin, free_list, size, magic, heap_used, asked)
  /\ halted \in BOOLEAN

---------------------------------------------------------------------------
(* Addresses *)

LEMMA AddrFact ==
  /\ HEAP_START \in Nat /\ HEAP_SIZE \in Nat /\ heap_end \in Nat
  /\ HEAP_START % 4 = 0 /\ heap_end % 4 = 0
  /\ heap_end = HEAP_START + HEAP_SIZE
  /\ Addr \in SUBSET Int
  /\ \A a \in Addr : a \in Nat /\ HEAP_START <= a /\ a < heap_end /\ a % 4 = 0
  /\ \A a \in Int : HEAP_START <= a /\ a < heap_end /\ a % 4 = 0 => a \in Addr
BY HeapAssumption DEF Addr, heap_end

\* Blocks as numbers.
LEMMA TiledFact ==
  ASSUME NEW B, NEW sz, NEW hb, Tiled(B, sz, hb)
  PROVE  /\ B \subseteq Addr
         /\ hb \in Nat /\ HEAP_START <= hb /\ hb <= heap_end /\ hb % 4 = 0
         /\ \A a \in Addr : sz[a] \in Nat /\ sz[a] <= HEAP_SIZE /\ sz[a] % 4 = 0
         /\ \A a \in Addr : EndIn(sz, a) = a + 12 + sz[a] /\ EndIn(sz, a) \in Nat
         /\ \A a \in B : /\ a < hb /\ EndIn(sz, a) <= hb
                         /\ EndIn(sz, a) \in B \cup {hb}
                         /\ \A b \in B : b <= a \/ b >= EndIn(sz, a)
<1>1. /\ B \subseteq Addr
      /\ hb \in Nat /\ HEAP_START <= hb /\ hb <= heap_end /\ hb % 4 = 0
      /\ \A a \in Addr : sz[a] \in Nat /\ sz[a] <= HEAP_SIZE /\ sz[a] % 4 = 0
  BY AddrFact DEF Tiled
<1>2. \A a \in Addr : EndIn(sz, a) = a + 12 + sz[a] /\ EndIn(sz, a) \in Nat
  BY <1>1, AddrFact DEF EndIn, Header
<1>3. ASSUME NEW a \in B
      PROVE  /\ a < hb /\ EndIn(sz, a) <= hb
             /\ EndIn(sz, a) \in B \cup {hb}
             /\ \A b \in B : b <= a \/ b >= EndIn(sz, a)
  <2>1. /\ a < hb
        /\ EndIn(sz, a) \in B \cup {hb}
        /\ \A b \in B : b <= a \/ b >= EndIn(sz, a)
        /\ \A b \in B : b < hb
    BY DEF Tiled
  <2>2. EndIn(sz, a) <= hb
    BY <1>1, <1>2, <2>1, AddrFact
  <2>3. QED
    BY <2>1, <2>2
<1>4. QED
  BY <1>1, <1>2, <1>3

\* The three ways in which sizes change: a tail is split off a block, a block
\* is added at the top, and a block takes in the one behind it.
Cut(sz, block, r, tail, sz2) ==
  /\ tail = block + Header + r
  /\ sz2 = [sz EXCEPT ![tail] = sz[block] - r - Header, ![block] = r]

Raised(sz, hb, r, top, sz2) == top = hb + (Header + r) /\ sz2 = [sz EXCEPT ![hb] = r]

Joined(sz, a, b, sz2) == sz2 = [sz EXCEPT ![a] = @ + Header + sz[b], ![b] = 0]

\* A block that is cut in two leaves the heap tiled.
LEMMA SplitTiled ==
  ASSUME NEW B, NEW sz, NEW hb, Tiled(B, sz, hb),
         NEW block \in B, NEW r \in Nat, r % 4 = 0, sz[block] >= r + Header + MinTail,
         NEW tail, NEW sz2, Cut(sz, block, r, tail, sz2)
  PROVE  /\ tail \in Addr /\ tail \notin B /\ block < tail /\ tail < EndIn(sz, block)
         /\ EndIn(sz2, tail) = EndIn(sz, block) /\ EndIn(sz2, block) = tail
         /\ sz2[block] = r
         /\ \A a \in Addr : a # block /\ a # tail => sz2[a] = sz[a]
         /\ Tiled(B \cup {tail}, sz2, hb)
<1>1. /\ B \subseteq Addr
      /\ hb \in Nat /\ HEAP_START <= hb /\ hb <= heap_end /\ hb % 4 = 0
      /\ \A a \in Addr : sz[a] \in Nat /\ sz[a] <= HEAP_SIZE /\ sz[a] % 4 = 0
      /\ \A a \in Addr : EndIn(sz, a) = a + 12 + sz[a] /\ EndIn(sz, a) \in Nat
      /\ \A a \in B : /\ a < hb /\ EndIn(sz, a) <= hb
                      /\ EndIn(sz, a) \in B \cup {hb}
                      /\ \A b \in B : b <= a \/ b >= EndIn(sz, a)
  BY TiledFact
<1>2. /\ block \in Addr /\ block \in Nat /\ block % 4 = 0 /\ HEAP_START <= block
      /\ sz[block] \in Nat /\ sz[block] % 4 = 0 /\ sz[block] >= r + 28
      /\ block + 12 + sz[block] <= heap_end
      /\ sz[block] <= HEAP_SIZE
  <2>1. block \in Addr /\ EndIn(sz, block) <= hb
    BY <1>1
  <2>2. /\ block \in Nat /\ block % 4 = 0 /\ HEAP_START <= block
        /\ heap_end \in Nat /\ hb \in Nat /\ hb <= heap_end
    BY <1>1, <2>1, AddrFact
  <2>3. /\ sz[block] \in Nat /\ sz[block] % 4 = 0 /\ sz[block] <= HEAP_SIZE
        /\ EndIn(sz, block) = block + 12 + sz[block]
    BY <1>1, <2>1
  <2>4. sz[block] >= r + 28
    BY <2>3 DEF Header, MinTail
  <2>5. block + 12 + sz[block] <= heap_end
    BY <2>1, <2>2, <2>3
  <2>6. QED
    BY <2>1, <2>2, <2>3, <2>4, <2>5
<1>3. tail = block + 12 + r /\ tail \in Nat /\ tail % 4 = 0 /\ block < tail /\ tail < EndIn(sz, block)
  BY <1>1, <1>2 DEF Header, Cut
<1>4. tail \in Addr
  BY <1>1, <1>2, <1>3, AddrFact
<1>5. tail \notin B
  BY <1>1, <1>2, <1>3
<1>6. sz \in [Addr -> 0 .. HEAP_SIZE]
  BY DEF Tiled
<1>7. /\ sz2 \in [Addr -> 0 .. HEAP_SIZE]
      /\ sz2[block] = r /\ sz2[tail] = sz[block] - r - 12
      /\ \A a \in Addr : a # block /\ a # tail => sz2[a] = sz[a]
  <2>1. sz[block] - r - Header \in 0 .. HEAP_SIZE /\ r \in 0 .. HEAP_SIZE
    BY <1>2, AddrFact DEF Header
  <2>2. tail # block
    BY <1>2, <1>3
  <2>3. QED
    BY <1>2, <1>4, <1>6, <2>1, <2>2 DEF Header, Cut
<1>8. /\ EndIn(sz2, tail) = EndIn(sz, block) /\ EndIn(sz2, block) = tail
      /\ \A a \in Addr : a # block /\ a # tail => EndIn(sz2, a) = EndIn(sz, a)
  <2>1. EndIn(sz2, tail) = EndIn(sz, block)
    BY <1>1, <1>2, <1>3, <1>7 DEF EndIn, Header
  <2>2. EndIn(sz2, block) = tail
    BY <1>2, <1>3, <1>7 DEF EndIn, Header
  <2>3. QED
    BY <1>7, <2>1, <2>2 DEF EndIn
<1>9. \A a \in Addr : sz2[a] % 4 = 0
  <2>1. sz2[tail] % 4 = 0
    BY <1>2, <1>7
  <2>2. QED
    BY <1>1, <1>7, <2>1
<1>10. ASSUME NEW a \in B \cup {tail}
       PROVE  /\ a < hb /\ EndIn(sz2, a) \in B \cup {tail} \cup {hb}
              /\ \A b \in B \cup {tail} : b <= a \/ b >= EndIn(sz2, a)
  <2>1. CASE a = tail
    <3>1. /\ hb \in Nat /\ block < hb /\ EndIn(sz, block) <= hb /\ EndIn(sz, block) \in B \cup {hb}
          /\ EndIn(sz, block) \in Nat
      BY <1>1, <1>2
    <3>2. \A b \in B : b \in Nat /\ (b <= block \/ b >= EndIn(sz, block))
      BY <1>1, AddrFact
    <3>3. tail < hb
      BY <1>2, <1>3, <3>1
    <3>4. \A b \in B : b <= tail \/ b >= EndIn(sz, block)
      BY <1>2, <1>3, <3>1, <3>2
    <3>5. QED
      BY <1>3, <1>8, <2>1, <3>1, <3>3, <3>4
  <2>2. CASE a = block
    BY <1>1, <1>2, <1>3, <1>4, <1>8, <2>2, AddrFact
  <2>3. CASE a # tail /\ a # block
    <3>1. a \in B /\ a \in Addr /\ EndIn(sz2, a) = EndIn(sz, a)
      BY <1>1, <1>8, <2>3
    <3>2. tail <= a \/ tail >= EndIn(sz, a)
      <4>1. a <= block \/ a >= EndIn(sz, block)
        BY <1>1, <3>1
      <4>2. CASE a >= EndIn(sz, block)
        BY <1>1, <1>3, <3>1, <4>2, AddrFact
      <4>3. CASE a <= block
        <5>1. block >= EndIn(sz, a)
          BY <1>1, <1>2, <2>3, <3>1, <4>3, AddrFact
        <5>2. QED
          BY <1>1, <1>2, <1>3, <3>1, <5>1
      <4>4. QED
        BY <4>1, <4>2, <4>3
    <3>3. QED
      BY <1>1, <3>1, <3>2
  <2>4. QED
    BY <2>1, <2>2, <2>3
<1>11. Tiled(B \cup {tail}, sz2, hb)
  <2>1. HEAP_START \in B \cup {hb} /\ hb \in HEAP_START .. heap_end
    BY DEF Tiled
  <2>2. QED
    BY <1>1, <1>4, <1>7, <1>9, <1>10, <2>1 DEF Tiled
<1>12. QED
  BY <1>3, <1>4, <1>5, <1>7, <1>8, <1>11

\* So does a new block at the end.
LEMMA BumpTiled ==
  ASSUME NEW B, NEW sz, NEW hb, Tiled(B, sz, hb),
         NEW r \in Nat, r % 4 = 0, hb <= heap_end - (Header + r),
         NEW top, NEW sz2, Raised(sz, hb, r, top, sz2)
  PROVE  /\ hb \in Addr /\ hb \notin B
         /\ sz2[hb] = r /\ EndIn(sz2, hb) = top
         /\ \A a \in Addr : a # hb => sz2[a] = sz[a]
         /\ Tiled(B \cup {hb}, sz2, top)
<1>1. /\ B \subseteq Addr
      /\ hb \in Nat /\ HEAP_START <= hb /\ hb <= heap_end /\ hb % 4 = 0
      /\ \A a \in Addr : sz[a] \in Nat /\ sz[a] <= HEAP_SIZE /\ sz[a] % 4 = 0
      /\ \A a \in Addr : EndIn(sz, a) = a + 12 + sz[a] /\ EndIn(sz, a) \in Nat
      /\ \A a \in B : /\ a < hb /\ EndIn(sz, a) <= hb
                      /\ EndIn(sz, a) \in B \cup {hb}
                      /\ \A b \in B : b <= a \/ b >= EndIn(sz, a)
  BY TiledFact
<1>2. top = hb + 12 + r /\ top \in Nat /\ top % 4 = 0 /\ hb < top /\ top <= heap_end
  BY <1>1, AddrFact DEF Header, Raised
<1>3. hb \in Addr /\ hb \notin B
  BY <1>1, <1>2, AddrFact
<1>4. sz \in [Addr -> 0 .. HEAP_SIZE] /\ r \in 0 .. HEAP_SIZE
  BY <1>1, <1>2, AddrFact DEF Tiled
<1>5. /\ sz2 \in [Addr -> 0 .. HEAP_SIZE] /\ sz2[hb] = r
      /\ \A a \in Addr : a # hb => sz2[a] = sz[a]
  BY <1>3, <1>4 DEF Raised
<1>6. EndIn(sz2, hb) = top /\ \A a \in B : EndIn(sz2, a) = EndIn(sz, a)
  BY <1>1, <1>2, <1>3, <1>5 DEF EndIn, Header
<1>7. \A a \in Addr : sz2[a] % 4 = 0
  BY <1>1, <1>5
<1>8. ASSUME NEW a \in B \cup {hb}
      PROVE  /\ a < top /\ EndIn(sz2, a) \in B \cup {hb} \cup {top}
             /\ \A b \in B \cup {hb} : b <= a \/ b >= EndIn(sz2, a)
  <2>1. CASE a = hb
    BY <1>1, <1>2, <1>6, <2>1, AddrFact
  <2>2. CASE a \in B
    BY <1>1, <1>2, <1>6, <2>2, AddrFact
  <2>3. QED
    BY <2>1, <2>2
<1>9. HEAP_START \in (B \cup {hb}) \cup {top} /\ top \in HEAP_START .. heap_end
  BY <1>1, <1>2, AddrFact DEF Tiled
<1>10. Tiled(B \cup {hb}, sz2, top)
  BY <1>1, <1>2, <1>3, <1>5, <1>7, <1>8, <1>9 DEF Tiled
<1>11. QED
  BY <1>3, <1>5, <1>6, <1>10

\* And so does a block that takes in the one behind it.
LEMMA JoinTiled ==
  ASSUME NEW B, NEW sz, NEW hb, Tiled(B, sz, hb),
         NEW a \in B, NEW b \in B, EndIn(sz, a) = b,
         NEW sz2, Joined(sz, a, b, sz2)
  PROVE  /\ a < b
         /\ EndIn(sz2, a) = EndIn(sz, b)
         /\ \A c \in Addr : c # a /\ c # b => sz2[c] = sz[c]
         /\ Tiled(B \ {b}, sz2, hb)
<1>1. /\ B \subseteq Addr
      /\ hb \in Nat /\ HEAP_START <= hb /\ hb <= heap_end /\ hb % 4 = 0
      /\ \A c \in Addr : sz[c] \in Nat /\ sz[c] <= HEAP_SIZE /\ sz[c] % 4 = 0
      /\ \A c \in Addr : EndIn(sz, c) = c + 12 + sz[c] /\ EndIn(sz, c) \in Nat
      /\ \A c \in B : /\ c < hb /\ EndIn(sz, c) <= hb
                      /\ EndIn(sz, c) \in B \cup {hb}
                      /\ \A d \in B : d <= c \/ d >= EndIn(sz, c)
  BY TiledFact
<1>2. /\ a \in Addr /\ b \in Addr /\ a \in Nat /\ b \in Nat /\ b = a + 12 + sz[a] /\ a < b
      /\ HEAP_START <= a /\ sz[a] \in Nat /\ sz[b] \in Nat /\ b + 12 + sz[b] <= heap_end
      /\ sz[a] % 4 = 0 /\ sz[b] % 4 = 0
  <2>1. a \in Addr /\ b \in Addr
    BY <1>1
  <2>2. a \in Nat /\ b \in Nat /\ HEAP_START <= a
    BY <2>1, AddrFact
  <2>3. sz[a] \in Nat /\ sz[b] \in Nat /\ sz[a] % 4 = 0 /\ sz[b] % 4 = 0
    BY <1>1, <2>1
  <2>4. b = a + 12 + sz[a] /\ EndIn(sz, b) = b + 12 + sz[b] /\ EndIn(sz, b) <= hb
    BY <1>1, <2>1
  <2>7. hb \in Nat /\ hb <= heap_end /\ heap_end \in Nat
    BY <1>1, AddrFact
  <2>5. b + 12 + sz[b] <= heap_end
    BY <2>2, <2>3, <2>4, <2>7
  <2>6. QED
    BY <2>1, <2>2, <2>3, <2>4, <2>5
<1>3. sz \in [Addr -> 0 .. HEAP_SIZE] /\ sz[a] + Header + sz[b] \in 0 .. HEAP_SIZE
  BY <1>2, AddrFact DEF Tiled, Header
<1>4. /\ sz2 \in [Addr -> 0 .. HEAP_SIZE] /\ sz2[a] = sz[a] + 12 + sz[b] /\ sz2[b] = 0
      /\ \A c \in Addr : c # a /\ c # b => sz2[c] = sz[c]
  <2>1. a # b
    BY <1>2
  <2>2. QED
    BY <1>2, <1>3, <2>1, AddrFact DEF Header, Joined
<1>5. /\ EndIn(sz2, a) = EndIn(sz, b)
      /\ \A c \in Addr : c # a /\ c # b => EndIn(sz2, c) = EndIn(sz, c)
  <2>1. EndIn(sz2, a) = EndIn(sz, b)
    BY <1>2, <1>4 DEF EndIn, Header
  <2>2. QED
    BY <1>4, <2>1 DEF EndIn
<1>6. \A c \in Addr : sz2[c] % 4 = 0
  <2>1. sz2[a] % 4 = 0 /\ sz2[b] % 4 = 0
    BY <1>2, <1>4
  <2>2. QED
    BY <1>1, <1>4, <2>1
<1>7. ASSUME NEW c \in B \ {b}
      PROVE  /\ c < hb /\ EndIn(sz2, c) \in (B \ {b}) \cup {hb}
             /\ \A d \in B \ {b} : d <= c \/ d >= EndIn(sz2, c)
  <2>1. CASE c = a
    <3>1. EndIn(sz2, c) = b + 12 + sz[b] /\ EndIn(sz2, c) \in B \cup {hb} /\ EndIn(sz2, c) # b
      BY <1>1, <1>2, <1>5, <2>1
    <3>2. ASSUME NEW d \in B \ {b} PROVE d <= c \/ d >= EndIn(sz2, c)
      <4>1. d \in Nat /\ (d <= a \/ d >= b) /\ (d <= b \/ d >= b + 12 + sz[b])
        BY <1>1, <1>2, AddrFact
      <4>2. QED
        BY <1>2, <2>1, <3>1, <4>1
    <3>3. QED
      BY <1>1, <2>1, <3>1, <3>2
  <2>2. CASE c # a
    <3>1. c \in Addr /\ EndIn(sz2, c) = EndIn(sz, c)
      BY <1>1, <1>5, <2>2
    <3>2. EndIn(sz, c) # b
      <4>1. c \in Nat /\ EndIn(sz, c) = c + 12 + sz[c] /\ sz[c] \in Nat
        BY <1>1, <3>1, AddrFact
      <4>2. c <= a \/ c >= b
        BY <1>1, <1>2
      <4>3. a <= c \/ a >= EndIn(sz, c)
        BY <1>1
      <4>4. QED
        BY <1>2, <2>2, <4>1, <4>2, <4>3
    <3>3. QED
      BY <1>1, <3>1, <3>2
  <2>3. QED
    BY <2>1, <2>2
<1>8. HEAP_START \in (B \ {b}) \cup {hb} /\ hb \in HEAP_START .. heap_end
  BY <1>1, <1>2, AddrFact DEF Tiled
<1>9. Tiled(B \ {b}, sz2, hb)
  BY <1>1, <1>4, <1>6, <1>7, <1>8 DEF Tiled
<1>10. QED
  BY <1>2, <1>4, <1>5, <1>9

---------------------------------------------------------------------------
(* How many bytes are handed out *)

LEMMA BytesFinite ==
  ASSUME NEW O, NEW sz
  PROVE  /\ IsFiniteSet(BytesOf(O, sz))
         /\ Cardinality(BytesOf(O, sz)) \in 0 .. HEAP_SIZE
<1>1. /\ IsFiniteSet(HEAP_START .. heap_end - 1)
      /\ Cardinality(HEAP_START .. heap_end - 1) = HEAP_SIZE
  BY AddrFact, FS_Interval, HeapAssumption
<1>2. BytesOf(O, sz) \in SUBSET (HEAP_START .. heap_end - 1)
  BY DEF BytesOf
<1>3. /\ IsFiniteSet(BytesOf(O, sz))
      /\ Cardinality(BytesOf(O, sz)) <= HEAP_SIZE
  BY <1>1, <1>2, FS_Subset
<1>4. QED
  BY <1>3, AddrFact, FS_CardinalityType

\* One block more counts for its header and its payload.
LEMMA BytesAdd ==
  ASSUME NEW B, NEW sz, NEW hb, Tiled(B, sz, hb),
         NEW O \in SUBSET B, NEW a \in B, a \notin O
  PROVE  Cardinality(BytesOf(O \cup {a}, sz)) = Cardinality(BytesOf(O, sz)) + Header + sz[a]
<1> DEFINE mine == a .. EndIn(sz, a) - 1
<1>1. /\ B \subseteq Addr
      /\ hb \in Nat /\ hb <= heap_end
      /\ \A c \in Addr : sz[c] \in Nat
      /\ \A c \in Addr : EndIn(sz, c) = c + 12 + sz[c] /\ EndIn(sz, c) \in Nat
      /\ \A c \in B : EndIn(sz, c) <= hb /\ \A d \in B : d <= c \/ d >= EndIn(sz, c)
  BY TiledFact
<1>2. /\ a \in Nat /\ HEAP_START <= a /\ sz[a] \in Nat
      /\ EndIn(sz, a) = a + 12 + sz[a] /\ EndIn(sz, a) <= heap_end
  BY <1>1, AddrFact
<1>3. IsFiniteSet(mine) /\ Cardinality(mine) = 12 + sz[a]
  <2>1. EndIn(sz, a) - 1 \in Int /\ a \in Int
    BY <1>2
  <2>2. /\ IsFiniteSet(mine)
        /\ Cardinality(mine) = IF a > EndIn(sz, a) - 1 THEN 0 ELSE EndIn(sz, a) - 1 - a + 1
    BY <2>1, FS_Interval
  <2> HIDE DEF mine
  <2>3. QED
    BY <1>2, <2>2
<1>4. BytesOf(O \cup {a}, sz) = BytesOf(O, sz) \cup mine
  <2>1. mine \subseteq HEAP_START .. heap_end - 1
    BY <1>2, AddrFact
  <2>2. \A x \in HEAP_START .. heap_end - 1 : x \in mine <=> a <= x /\ x < EndIn(sz, a)
    BY <1>2, AddrFact
  <2> HIDE DEF mine
  <2>3. QED
    BY <2>1, <2>2 DEF BytesOf
<1>5. BytesOf(O, sz) \cap mine = {}
  <2> SUFFICES ASSUME NEW x \in BytesOf(O, sz), x \in mine PROVE FALSE
    OBVIOUS
  <2>1. PICK c \in O : c <= x /\ x < EndIn(sz, c)
    BY DEF BytesOf
  <2>2. c \in Nat /\ c # a /\ c \in B /\ EndIn(sz, c) \in Nat
    BY <1>1, AddrFact
  <2>3. x \in Int /\ a <= x /\ x < EndIn(sz, a)
    BY <1>2
  <2>4. (a <= c \/ a >= EndIn(sz, c)) /\ (c <= a \/ c >= EndIn(sz, a))
    BY <1>1, <2>2
  <2>5. QED
    BY <1>2, <2>1, <2>2, <2>3, <2>4
<1> HIDE DEF mine
<1>6. Cardinality(BytesOf(O, sz) \cup mine) = Cardinality(BytesOf(O, sz)) + (12 + sz[a]) - 0
  <2>1. IsFiniteSet(BytesOf(O, sz)) /\ Cardinality({}) = 0
    BY BytesFinite, FS_EmptySet
  <2>2. QED
    BY <1>3, <1>5, <2>1, FS_Union
<1>7. Cardinality(BytesOf(O, sz)) \in Nat
  BY BytesFinite, AddrFact
<1>8. Cardinality(BytesOf(O \cup {a}, sz)) = Cardinality(BytesOf(O, sz)) + (12 + sz[a]) - 0
  BY <1>4, <1>6
<1>9. QED
  BY <1>2, <1>7, <1>8 DEF Header

\* The bytes depend on the sizes of the blocks that are handed out only.
LEMMA BytesSame ==
  ASSUME NEW O, NEW sz, NEW sz2, \A a \in O : sz2[a] = sz[a]
  PROVE  BytesOf(O, sz2) = BytesOf(O, sz)
BY DEF BytesOf, EndIn

---------------------------------------------------------------------------
(* kmalloc *)

\* A request is rounded up to whole words.
LEMMA AlignFact ==
  ASSUME NEW n \in Nat
  PROVE  align_size(n) \in Nat /\ align_size(n) >= n /\ align_size(n) % 4 = 0
BY DEF align_size

\* Handing out a block marks it, and spoils no mark of another.
LEMMA HandedMarks ==
  ASSUME NEW O \in SUBSET Addr, Marks(magic, O), NEW block \in Addr, NEW n,
         \A a \in O : ~(block < a /\ a < block + Header + n)
  PROVE  Marks(Handed(block, n), O \cup {block})
BY DEF Marks, Handed, ALLOCATED, FREE

\* What a block that is given to an owner needs besides its bytes.
LEMMA OwnersAdd ==
  ASSUME NEW ask \in [Addr -> Nat], NEW block \in Addr, NEW n \in Nat, n > 0
  PROVE  /\ [ask EXCEPT ![block] = n] \in [Addr -> Nat]
         /\ Owners([ask EXCEPT ![block] = n]) = Owners(ask) \cup {block}
         /\ \A a \in Addr : [ask EXCEPT ![block] = n][a] = IF a = block THEN n ELSE ask[a]
BY DEF Owners

\* First fit finds a free block that is large enough.
LEMMA FirstFit ==
  ASSUME HeapInv, NEW r \in Nat, Fits(r) # {}
  PROVE  LET i == CHOOSE k \in Fits(r) : \A j \in Fits(r) : k <= j
         IN  /\ i \in 1 .. Len(free_list)
             /\ free_list[i] \in ToSet(free_list) /\ free_list[i] \in Addr
             /\ size[free_list[i]] >= r
<1>1. /\ Len(free_list) \in Nat /\ DOMAIN free_list = 1 .. Len(free_list)
      /\ \A j \in 1 .. Len(free_list) : free_list[j] \in Addr
  BY ListFact, AddrFact DEF HeapInv, HeapOK
<1>2. Fits(r) \in SUBSET Nat
  BY <1>1 DEF Fits
<1>3. \E k \in Fits(r) : \A j \in Fits(r) : k <= j
  BY <1>2, LeastExists
<1>4. (CHOOSE k \in Fits(r) : \A j \in Fits(r) : k <= j) \in Fits(r)
  BY <1>3
<1>5. QED
  BY <1>1, <1>4 DEF Fits, ToSet

LEMMA KmallocFreeKeeps ==
  ASSUME HeapInv, NEW n \in Requests, KmallocFree(n)
  PROVE  HeapInv'
<1> DEFINE r     == align_size(n)
           i     == CHOOSE k \in Fits(r) : \A j \in Fits(r) : k <= j
           block == free_list[i]
           tail  == block + Header + r
           O == Owners(asked)
           F == ToSet(free_list)
<1>1. n \in Nat /\ n > 0 /\ r \in Nat /\ r >= n /\ r % 4 = 0
  BY AlignFact, HeapAssumption DEF KmallocFree
<1>2. /\ i \in 1 .. Len(free_list)
      /\ block \in F /\ block \in Addr
      /\ size[block] >= r
  BY <1>1, FirstFit DEF KmallocFree
<1>3. /\ IF Splits(block, r)
         THEN /\ size' = [size EXCEPT ![tail] = size[block] - r - Header, ![block] = r]
              /\ magic' = [Handed(block, r) EXCEPT ![tail] = FREE]
              /\ free_list' = [free_list EXCEPT ![i] = tail]
         ELSE /\ magic' = Handed(block, size[block])
              /\ free_list' = RemoveAt(free_list, i)
              /\ size' = size
      /\ heap_used' = heap_used + Header + size'[block]
      /\ asked' = [asked EXCEPT ![block] = n]
      /\ heap_begin' = heap_begin /\ halted' = halted
  BY DEF KmallocFree
<1> HIDE DEF r, i, block
<1>4. /\ free_list \in Seq(Addr) /\ Ascends(free_list) /\ asked \in [Addr -> Nat]
      /\ Tiled(O \cup F, size, heap_begin) /\ O \cap F = {}
      /\ \A a \in O : size[a] >= asked[a]
      /\ Apart(F, size) /\ Marks(magic, O)
      /\ heap_used = Cardinality(BytesOf(O, size))
      /\ halted \in BOOLEAN
  BY DEF HeapInv, HeapOK
<1>5. /\ asked' \in [Addr -> Nat] /\ Owners(asked') = O \cup {block}
      /\ \A a \in Addr : asked'[a] = IF a = block THEN n ELSE asked[a]
  BY <1>1, <1>2, <1>3, <1>4, OwnersAdd
<1>6. /\ O \subseteq Addr /\ F \subseteq Addr /\ block \notin O
      /\ \A a \in Addr : a \in Nat /\ size[a] \in Nat /\ EndIn(size, a) \in Nat
      /\ \A a \in O \cup F : \A b \in O \cup F : b <= a \/ b >= EndIn(size, a)
      /\ EndIn(size, block) <= heap_begin /\ heap_begin \in Nat
      /\ EndIn(size, block) = block + 12 + size[block]
  <2>1. O \subseteq Addr
    BY DEF Owners
  <2> HIDE DEF O, F
  <2>2. /\ O \cup F \subseteq Addr /\ heap_begin \in Nat
        /\ \A a \in Addr : size[a] \in Nat
        /\ \A a \in Addr : EndIn(size, a) = a + 12 + size[a] /\ EndIn(size, a) \in Nat
        /\ \A a \in O \cup F : /\ EndIn(size, a) <= heap_begin
                               /\ \A b \in O \cup F : b <= a \/ b >= EndIn(size, a)
    BY <1>4, TiledFact
  <2>3. block \in O \cup F /\ block \notin O
    BY <1>2, <1>4
  <2>4. \A a \in Addr : a \in Nat
    BY AddrFact
  <2>5. QED
    BY <1>2, <2>1, <2>2, <2>3, <2>4
<1> HIDE DEF O, F
<1>7. CASE Splits(block, r)
  <2>1. size[block] >= r + Header + MinTail
    BY <1>7 DEF Splits
  <2>2. /\ tail \in Addr /\ tail \notin O \cup F /\ block < tail /\ tail < EndIn(size, block)
        /\ EndIn(size', tail) = EndIn(size, block) /\ EndIn(size', block) = tail
        /\ size'[block] = r
        /\ \A a \in Addr : a # block /\ a # tail => size'[a] = size[a]
        /\ Tiled((O \cup F) \cup {tail}, size', heap_begin)
    <3>1. block \in O \cup F
      BY <1>2
    <3>2. size' = [size EXCEPT ![tail] = size[block] - r - Header, ![block] = r]
      BY <1>3, <1>7
    <3>3. Cut(size, block, r, tail, size')
      BY <3>2 DEF Cut
    <3> HIDE DEF tail
    <3>4. QED
      BY <1>1, <1>4, <2>1, <3>1, <3>3, SplitTiled
  <2> HIDE DEF tail
  <2>3. \A j \in DOMAIN free_list : j > i => tail < free_list[j]
    <3> SUFFICES ASSUME NEW j \in DOMAIN free_list, j > i PROVE tail < free_list[j]
      OBVIOUS
    <3>1. free_list[j] \in F /\ block < free_list[j]
      <4>1. i \in DOMAIN free_list
        BY <1>2, <1>4
      <4>2. i < j
        BY <1>2, <1>4
      <4>3. QED
        BY <1>4, <4>1, <4>2 DEF Ascends, block, F, ToSet
    <3>2. free_list[j] \in Nat /\ (free_list[j] <= block \/ free_list[j] >= EndIn(size, block))
      BY <1>2, <1>6, <3>1
    <3>3. block \in Nat /\ tail \in Nat
      BY <1>2, <1>6, <2>2
    <3>4. tail < EndIn(size, block) /\ EndIn(size, block) \in Nat
      BY <1>2, <1>6, <2>2
    <3>5. QED
      BY <3>1, <3>2, <3>3, <3>4
  <2>4. free_list' \in Seq(Addr) /\ Ascends(free_list') /\ ToSet(free_list') = (F \ {block}) \cup {tail}
    <3>1. Replaced(free_list, i, tail, free_list')
      BY <1>3, <1>7 DEF Replaced
    <3>2. free_list[i] < tail
      BY <2>2 DEF block
    <3>3. Addr \in SUBSET Int
      BY AddrFact
    <3>4. free_list \in Seq(Addr) /\ Ascends(free_list) /\ tail \in Addr
      BY <1>4, <2>2
    <3>5. /\ free_list' \in Seq(Addr) /\ Ascends(free_list')
          /\ ToSet(free_list') = (ToSet(free_list) \ {free_list[i]}) \cup {tail}
      BY <1>2, <2>3, <3>1, <3>2, <3>3, <3>4, ReplaceAscends
    <3>6. QED
      BY <3>5 DEF F, block
  <2>5. Owners(asked') \cup ToSet(free_list') = (O \cup F) \cup {tail}
    BY <1>2, <1>5, <2>4
  <2>6. Owners(asked') \cap ToSet(free_list') = {}
    BY <1>2, <1>4, <1>5, <2>2, <2>4
  <2>7. \A a \in Owners(asked') : size'[a] >= asked'[a]
    <3> SUFFICES ASSUME NEW a \in O \cup {block} PROVE size'[a] >= asked'[a]
      BY <1>5
    <3>1. CASE a = block
      BY <1>1, <1>2, <1>5, <2>2, <3>1
    <3>2. CASE a \in O /\ a # block
      BY <1>4, <1>5, <1>6, <2>2, <3>2
    <3>3. QED
      BY <3>1, <3>2
  <2>8. Apart(ToSet(free_list'), size')
    <3> SUFFICES ASSUME NEW a \in (F \ {block}) \cup {tail}, NEW b \in (F \ {block}) \cup {tail}
                 PROVE  EndIn(size', a) # b
      BY <2>4 DEF Apart
    <3>1. CASE a = tail
      <4>1. EndIn(size', a) = EndIn(size, block) /\ EndIn(size, block) # tail
        BY <2>2, <1>6, <3>1
      <4>2. QED
        BY <1>2, <1>4, <4>1 DEF Apart
    <3>2. CASE a \in F \ {block}
      <4>1. a # tail /\ EndIn(size', a) = EndIn(size, a)
        BY <1>6, <2>2, <3>2 DEF EndIn
      <4>2. EndIn(size, a) \in O \cup F \cup {heap_begin}
        BY <1>4, <3>2, TiledFact
      <4>3. tail # heap_begin
        <5>1. tail \in Nat /\ EndIn(size, block) \in Nat
          BY <1>2, <1>6, <2>2
        <5>2. QED
          BY <1>6, <2>2, <5>1
      <4>4. QED
        BY <1>4, <2>2, <3>2, <4>1, <4>2, <4>3 DEF Apart
    <3>3. QED
      BY <3>1, <3>2
  <2>9. Marks(magic', Owners(asked'))
    <3>1. \A a \in O : ~(block < a /\ a < block + Header + r)
      <4> SUFFICES ASSUME NEW a \in O, block < a, a < block + Header + r PROVE FALSE
        OBVIOUS
      <4>1. a \in Nat /\ a >= EndIn(size, block) /\ block \in Nat
        BY <1>2, <1>6
      <4>2. QED
        BY <1>1, <1>2, <1>6, <4>1, SMTT(40) DEF Header
    <3>2. Marks(Handed(block, r), O \cup {block})
      <4>1. O \in SUBSET Addr
        BY <1>6
      <4>2. QED
        BY <1>2, <1>4, <3>1, <4>1, HandedMarks
    <3>3. magic' = [Handed(block, r) EXCEPT ![tail] = FREE] /\ tail \notin O \cup {block}
      BY <1>2, <1>3, <1>7, <2>2
    <3> HIDE DEF Marks
    <3>4. Marks([Handed(block, r) EXCEPT ![tail] = FREE], O \cup {block})
      BY <2>2, <3>2, <3>3 DEF Marks, ALLOCATED, FREE
    <3>5. QED
      BY <1>5, <3>3, <3>4
  <2>10. heap_used' = Cardinality(BytesOf(Owners(asked'), size'))
    <3>1. BytesOf(O, size') = BytesOf(O, size)
      BY <1>6, <2>2, BytesSame
    <3>2. Cardinality(BytesOf(O \cup {block}, size')) = Cardinality(BytesOf(O, size')) + Header + size'[block]
      <4>1. O \in SUBSET ((O \cup F) \cup {tail}) /\ block \in (O \cup F) \cup {tail}
        BY <1>2
      <4>2. QED
        BY <1>6, <2>2, <4>1, BytesAdd
    <3>3. QED
      BY <1>3, <1>4, <1>5, <3>1, <3>2
  <2>11. QED
    BY <1>3, <1>4, <1>5, <2>2, <2>4, <2>5, <2>6, <2>7, <2>8, <2>9, <2>10 DEF HeapInv, HeapOK
<1>8. CASE ~Splits(block, r)
  <2>1. size' = size /\ free_list' = RemoveAt(free_list, i) /\ magic' = Handed(block, size[block])
    BY <1>3, <1>8
  <2>2. /\ free_list' \in Seq(Addr) /\ Ascends(free_list') /\ ToSet(free_list') = F \ {block}
    BY <1>2, <1>4, <2>1, RemoveAtProp, RemoveAscends, AddrFact DEF F, block
  <2>3. Owners(asked') \cup ToSet(free_list') = O \cup F /\ Owners(asked') \cap ToSet(free_list') = {}
    BY <1>2, <1>4, <1>5, <2>2
  <2>4. \A a \in Owners(asked') : size'[a] >= asked'[a]
    <3> SUFFICES ASSUME NEW a \in O \cup {block} PROVE size[a] >= asked'[a]
      BY <1>5, <2>1
    <3>1. CASE a = block
      BY <1>1, <1>2, <1>5, <1>6, <3>1, SMTT(40)
    <3>2. CASE a \in O /\ a # block
      BY <1>4, <1>5, <1>6, <3>2
    <3>3. QED
      BY <3>1, <3>2
  <2>5. Apart(ToSet(free_list'), size')
    BY <1>4, <2>1, <2>2 DEF Apart
  <2>6. Marks(magic', Owners(asked'))
    <3>1. \A a \in O : ~(block < a /\ a < block + Header + size[block])
      <4> SUFFICES ASSUME NEW a \in O, block < a, a < block + Header + size[block] PROVE FALSE
        OBVIOUS
      <4>1. a \in Nat /\ a >= EndIn(size, block) /\ block \in Nat
        BY <1>2, <1>6
      <4>2. QED
        BY <1>2, <1>6, <4>1 DEF Header
    <3>2. O \in SUBSET Addr
      BY <1>6
    <3>3. Marks(Handed(block, size[block]), O \cup {block})
      BY <1>2, <1>4, <3>1, <3>2, HandedMarks
    <3>4. QED
      BY <1>5, <2>1, <3>3
  <2>7. heap_used' = Cardinality(BytesOf(Owners(asked'), size'))
    <3>1. Cardinality(BytesOf(O \cup {block}, size)) = Cardinality(BytesOf(O, size)) + Header + size[block]
      <4>1. O \in SUBSET (O \cup F) /\ block \in O \cup F
        BY <1>2
      <4>2. QED
        <5>1. Tiled(O \cup F, size, heap_begin) /\ block \notin O
          BY <1>4, <1>6
        <5>2. QED
          BY <4>1, <5>1, BytesAdd
    <3>2. QED
      BY <1>3, <1>4, <1>5, <2>1, <3>1
  <2>8. QED
    BY <1>3, <1>4, <1>5, <2>1, <2>2, <2>3, <2>4, <2>5, <2>6, <2>7 DEF HeapInv, HeapOK
<1>9. QED
  BY <1>7, <1>8

LEMMA KmallocBumpKeeps ==
  ASSUME HeapInv, NEW n \in Requests, KmallocBump(n)
  PROVE  HeapInv'
<1> DEFINE r == align_size(n)
           O == Owners(asked)
           F == ToSet(free_list)
<1>1. n \in Nat /\ n > 0 /\ r \in Nat /\ r >= n /\ r % 4 = 0
  BY AlignFact, HeapAssumption DEF KmallocBump
<1>2. /\ ~(heap_begin > heap_end - (Header + r))
      /\ heap_begin' = heap_begin + (Header + r)
      /\ size' = [size EXCEPT ![heap_begin] = r]
      /\ magic' = Handed(heap_begin, r)
      /\ heap_used' = heap_used + (Header + r)
      /\ asked' = [asked EXCEPT ![heap_begin] = n]
      /\ free_list' = free_list /\ halted' = halted
  BY DEF KmallocBump, OutOfMemory
<1>3. /\ free_list \in Seq(Addr) /\ Ascends(free_list) /\ asked \in [Addr -> Nat]
      /\ Tiled(O \cup F, size, heap_begin) /\ O \cap F = {}
      /\ \A a \in O : size[a] >= asked[a]
      /\ Apart(F, size) /\ Marks(magic, O)
      /\ heap_used = Cardinality(BytesOf(O, size))
      /\ halted \in BOOLEAN
  BY DEF HeapInv, HeapOK
<1>4. O \subseteq Addr
  BY DEF Owners
<1> HIDE DEF r, O, F
<1>5. /\ heap_begin \in Addr /\ heap_begin \notin O \cup F
      /\ size'[heap_begin] = r /\ EndIn(size', heap_begin) = heap_begin'
      /\ \A a \in Addr : a # heap_begin => size'[a] = size[a]
      /\ Tiled((O \cup F) \cup {heap_begin}, size', heap_begin')
  <2>1. Raised(size, heap_begin, r, heap_begin', size')
    BY <1>2 DEF Raised
  <2>2. Tiled(O \cup F, size, heap_begin)
    BY <1>3
  <2>3. heap_begin <= heap_end - (Header + r)
    <3>1. heap_begin \in Nat
      BY <2>2, TiledFact
    <3>2. heap_end \in Nat
      BY AddrFact
    <3>3. QED
      BY <1>1, <1>2, <3>1, <3>2 DEF Header
  <2>4. QED
    BY <1>1, <2>1, <2>2, <2>3, BumpTiled
<1>6. /\ O \cup F \subseteq Addr
      /\ \A a \in O \cup F : a < heap_begin /\ EndIn(size, a) <= heap_begin
      /\ \A a \in Addr : a \in Nat /\ EndIn(size, a) \in Nat /\ EndIn(size, a) = a + 12 + size[a]
  <2>1. Tiled(O \cup F, size, heap_begin)
    BY <1>3
  <2>2. \A a \in Addr : a \in Nat
    BY AddrFact
  <2>3. QED
    BY <2>1, <2>2, TiledFact
<1>7. /\ asked' \in [Addr -> Nat] /\ Owners(asked') = O \cup {heap_begin}
      /\ \A a \in Addr : asked'[a] = IF a = heap_begin THEN n ELSE asked[a]
  BY <1>1, <1>2, <1>3, <1>5, OwnersAdd DEF O
<1>8. ToSet(free_list') = F
  BY <1>2 DEF F
<1>9. /\ Owners(asked') \cup ToSet(free_list') = (O \cup F) \cup {heap_begin}
      /\ Owners(asked') \cap ToSet(free_list') = {}
  BY <1>3, <1>5, <1>7, <1>8
<1>10. \A a \in Owners(asked') : size'[a] >= asked'[a]
  <2> SUFFICES ASSUME NEW a \in O \cup {heap_begin} PROVE size'[a] >= asked'[a]
    BY <1>7
  <2>1. CASE a = heap_begin
    BY <1>1, <1>5, <1>7, <2>1
  <2>2. CASE a \in O /\ a # heap_begin
    BY <1>3, <1>4, <1>5, <1>7, <2>2
  <2>3. QED
    BY <2>1, <2>2
<1>11. Apart(ToSet(free_list'), size')
  <2>1. \A a \in F : EndIn(size', a) = EndIn(size, a)
    BY <1>5, <1>6 DEF EndIn
  <2>2. QED
    BY <1>3, <1>8, <2>1 DEF Apart
<1>12. Marks(magic', Owners(asked'))
  <2>1. \A a \in O : ~(heap_begin < a /\ a < heap_begin + Header + r)
    <3>1. \A a \in O : a \in Nat /\ a < heap_begin
      BY <1>6
    <3>2. heap_begin \in Nat
      BY <1>5, <1>6
    <3>3. QED
      BY <3>1, <3>2
  <2>2. O \in SUBSET Addr /\ Marks(magic, O) /\ heap_begin \in Addr
    BY <1>3, <1>4, <1>5
  <2>3. Marks(Handed(heap_begin, r), O \cup {heap_begin})
    BY <2>1, <2>2, HandedMarks
  <2>4. QED
    BY <1>2, <1>7, <2>3
<1>13. heap_used' = Cardinality(BytesOf(Owners(asked'), size'))
  <2>1. BytesOf(O, size') = BytesOf(O, size)
    BY <1>4, <1>5, BytesSame
  <2>2. O \in SUBSET ((O \cup F) \cup {heap_begin}) /\ heap_begin \in (O \cup F) \cup {heap_begin}
    OBVIOUS
  <2>3. Tiled((O \cup F) \cup {heap_begin}, size', heap_begin') /\ heap_begin \notin O
    BY <1>5
  <2>4. Cardinality(BytesOf(O \cup {heap_begin}, size')) = Cardinality(BytesOf(O, size')) + Header + size'[heap_begin]
    BY <2>2, <2>3, BytesAdd
  <2>5. Cardinality(BytesOf(Owners(asked'), size')) = heap_used + Header + r
    BY <1>3, <1>5, <1>7, <2>1, <2>4
  <2>6. heap_used \in Nat
    BY <1>3, BytesFinite, AddrFact
  <2>7. QED
    BY <1>1, <1>2, <2>5, <2>6 DEF Header
<1>14. QED
  BY <1>2, <1>3, <1>5, <1>7, <1>8, <1>9, <1>10, <1>11, <1>12, <1>13 DEF HeapInv, HeapOK

---------------------------------------------------------------------------
(* kfree *)

\* In the list, a block that starts where another ends is the one behind it.
LEMMA AdjacentIsNext ==
  ASSUME NEW B, NEW sz, NEW hb, Tiled(B, sz, hb),
         NEW fl \in Seq(Addr), Ascends(fl), ToSet(fl) \subseteq B,
         NEW j \in 1 .. Len(fl), NEW k \in 1 .. Len(fl), EndIn(sz, fl[j]) = fl[k]
  PROVE  k = j + 1
<1>1. /\ Len(fl) \in Nat /\ DOMAIN fl = 1 .. Len(fl)
      /\ \A m \in 1 .. Len(fl) : fl[m] \in Addr
  BY ListFact, AddrFact
<1>2. \A m \in 1 .. Len(fl) : fl[m] \in B /\ fl[m] \in Nat
  BY <1>1, AddrFact DEF ToSet
<1>3. /\ \A a \in Addr : EndIn(sz, a) = a + 12 + sz[a] /\ sz[a] \in Nat
      /\ \A a, b \in B : b <= a \/ b >= EndIn(sz, a)
  BY TiledFact
<1>4. fl[j] < fl[k] /\ fl[j] \in Nat /\ fl[k] \in Nat
  <2>1. fl[k] = fl[j] + 12 + sz[fl[j]] /\ sz[fl[j]] \in Nat
    BY <1>1, <1>3
  <2>2. QED
    BY <1>2, <2>1
<1>5. j < k
  <2>1. j = k \/ k < j \/ j < k
    BY <1>1
  <2>2. k < j => fl[k] < fl[j]
    BY <1>1 DEF Ascends
  <2>3. QED
    BY <1>4, <2>1, <2>2
<1>6. ~(j + 1 < k)
  <2> SUFFICES ASSUME j + 1 < k PROVE FALSE
    OBVIOUS
  <2>1. j + 1 \in 1 .. Len(fl) /\ j < j + 1
    BY <1>1
  <2>2. fl[j] < fl[j + 1] /\ fl[j + 1] < fl[k]
    BY <1>1, <2>1 DEF Ascends
  <2>3. fl[j + 1] <= fl[j] \/ fl[j + 1] >= fl[k]
    BY <1>2, <1>3, <2>1
  <2>4. fl[j + 1] \in Nat
    BY <1>2, <2>1
  <2>5. QED
    BY <1>4, <2>2, <2>3, <2>4
<1>7. QED
  BY <1>1, <1>5, <1>6

\* Block b has been put in the list, at position k, and not been joined with
\* its neighbours yet.
Listed(fl, sz, b, k, O, hb) ==
  /\ fl \in Seq(Addr) /\ Ascends(fl)
  /\ k \in 1 .. Len(fl) /\ fl[k] = b
  /\ Tiled(O \cup ToSet(fl), sz, hb)
  /\ O \cap ToSet(fl) = {} /\ O \subseteq Addr
  /\ Apart(ToSet(fl) \ {b}, sz)

\* What is needed of it again and again.
LEMMA ListedFact ==
  ASSUME NEW fl, NEW sz, NEW b, NEW k, NEW O, NEW hb, Listed(fl, sz, b, k, O, hb)
  PROVE  /\ Len(fl) \in Nat /\ k \in Nat /\ k >= 1 /\ k <= Len(fl)
         /\ b \in ToSet(fl) /\ b \in Addr
         /\ \A j \in 1 .. Len(fl) : fl[j] \in ToSet(fl)
         /\ \A a \in ToSet(fl) : \E j \in 1 .. Len(fl) : fl[j] = a
         /\ ToSet(fl) \subseteq Addr
         /\ \A a \in ToSet(fl) : a \in Nat /\ sz[a] \in Nat /\ EndIn(sz, a) = a + 12 + sz[a]
         /\ \A i, j \in 1 .. Len(fl) : EndIn(sz, fl[i]) = fl[j] => j = i + 1
         /\ \A i, j \in 1 .. Len(fl) : fl[i] = fl[j] => i = j
<1>0. /\ fl \in Seq(Addr) /\ Ascends(fl) /\ k \in 1 .. Len(fl) /\ fl[k] = b
      /\ Tiled(O \cup ToSet(fl), sz, hb)
  BY DEF Listed
<1>1. /\ Len(fl) \in Nat /\ DOMAIN fl = 1 .. Len(fl)
      /\ \A m \in 1 .. Len(fl) : fl[m] \in Addr
  BY <1>0, ListFact, AddrFact
<1>2. k \in Nat /\ k >= 1 /\ k <= Len(fl)
  BY <1>0, <1>1
<1>3. /\ \A j \in 1 .. Len(fl) : fl[j] \in ToSet(fl)
      /\ \A a \in ToSet(fl) : \E j \in 1 .. Len(fl) : fl[j] = a
  BY <1>1 DEF ToSet
<1>4. ToSet(fl) \subseteq Addr /\ b \in ToSet(fl) /\ b \in Addr
  BY <1>0, <1>1, <1>3
<1>5. \A a \in ToSet(fl) : a \in Nat /\ sz[a] \in Nat /\ EndIn(sz, a) = a + 12 + sz[a]
  BY <1>0, <1>4, TiledFact, AddrFact
<1>6. ASSUME NEW i \in 1 .. Len(fl), NEW j \in 1 .. Len(fl), EndIn(sz, fl[i]) = fl[j]
      PROVE  j = i + 1
  <2>1. ToSet(fl) \subseteq O \cup ToSet(fl)
    OBVIOUS
  <2>2. QED
    BY <1>0, <1>6, <2>1, AdjacentIsNext
<1>7. ASSUME NEW i \in 1 .. Len(fl), NEW j \in 1 .. Len(fl), fl[i] = fl[j]
      PROVE  i = j
  <2>1. i = j \/ i < j \/ j < i
    BY <1>1
  <2>2. (i < j => fl[i] < fl[j]) /\ (j < i => fl[j] < fl[i])
    BY <1>0, <1>1 DEF Ascends
  <2>3. fl[i] \in Nat /\ fl[j] \in Nat
    BY <1>3, <1>5
  <2>4. QED
    BY <1>7, <2>1, <2>2, <2>3
<1>8. QED
  BY <1>1, <1>2, <1>3, <1>4, <1>5, <1>6, <1>7

\* The block behind is not free.
LEMMA NoNext ==
  ASSUME NEW fl, NEW sz, NEW b, NEW k, NEW O, NEW hb, Listed(fl, sz, b, k, O, hb),
         ~(k < Len(fl) /\ JoinsPrevious(fl, sz, k + 1))
  PROVE  EndIn(sz, b) \notin ToSet(fl)
<1> SUFFICES ASSUME EndIn(sz, b) \in ToSet(fl) PROVE FALSE
  OBVIOUS
<1>1. /\ Len(fl) \in Nat /\ k \in Nat /\ k >= 1 /\ k <= Len(fl)
      /\ \A i, j \in 1 .. Len(fl) : EndIn(sz, fl[i]) = fl[j] => j = i + 1
      /\ \E j \in 1 .. Len(fl) : fl[j] = EndIn(sz, b)
  BY ListedFact
<1>2. PICK j \in 1 .. Len(fl) : fl[j] = EndIn(sz, b)
  BY <1>1
<1>3. fl[k] = b /\ k \in 1 .. Len(fl)
  BY DEF Listed
<1>4. j = k + 1
  BY <1>1, <1>2, <1>3
<1>5. k < Len(fl) /\ k + 1 > 1 /\ (k + 1) - 1 = k
  BY <1>1, <1>4
<1>6. JoinsPrevious(fl, sz, k + 1)
  BY <1>2, <1>3, <1>4, <1>5 DEF JoinsPrevious, EndIn
<1>7. QED
  BY <1>5, <1>6

\* The block behind is free and is taken in.
LEMMA JoinNext ==
  ASSUME NEW fl, NEW sz, NEW b, NEW k, NEW O, NEW hb, Listed(fl, sz, b, k, O, hb),
         k < Len(fl), JoinsPrevious(fl, sz, k + 1),
         NEW next, next = fl[k + 1], NEW sz2, Joined(sz, b, next, sz2),
         NEW fl2, fl2 = RemoveAt(fl, k + 1)
  PROVE  /\ Listed(fl2, sz2, b, k, O, hb)
         /\ EndIn(sz2, b) \notin ToSet(fl2)
         /\ \A a \in O : sz2[a] = sz[a]
<1>1. /\ Len(fl) \in Nat /\ k \in Nat /\ k >= 1 /\ k <= Len(fl)
      /\ b \in ToSet(fl) /\ b \in Addr
      /\ \A j \in 1 .. Len(fl) : fl[j] \in ToSet(fl)
      /\ ToSet(fl) \subseteq Addr
      /\ \A a \in ToSet(fl) : a \in Nat /\ sz[a] \in Nat /\ EndIn(sz, a) = a + 12 + sz[a]
  BY ListedFact
<1>2. /\ fl \in Seq(Addr) /\ Ascends(fl) /\ fl[k] = b /\ Tiled(O \cup ToSet(fl), sz, hb)
      /\ O \cap ToSet(fl) = {} /\ O \subseteq Addr /\ Apart(ToSet(fl) \ {b}, sz)
  BY DEF Listed
<1>3. k + 1 \in 1 .. Len(fl) /\ (k + 1) - 1 = k
  BY <1>1
<1>4. next \in ToSet(fl) /\ EndIn(sz, b) = next
  BY <1>1, <1>2, <1>3 DEF JoinsPrevious, EndIn
<1>6. /\ fl2 \in Seq(Addr) /\ Ascends(fl2) /\ ToSet(fl2) = ToSet(fl) \ {next}
      /\ k \in 1 .. Len(fl2) /\ fl2[k] = b
  <2>1. Addr \in SUBSET Int
    BY AddrFact
  <2>2. Ascends(fl2) /\ ToSet(fl2) = ToSet(fl) \ {next}
    BY <1>2, <1>3, <2>1, RemoveAscends
  <2>3. /\ fl2 \in Seq(Addr) /\ Len(fl2) = Len(fl) - 1
        /\ \A j \in 1 .. Len(fl) - 1 : fl2[j] = IF j < k + 1 THEN fl[j] ELSE fl[j + 1]
    BY <1>2, <1>3, RemoveAtProp
  <2>4. k \in 1 .. Len(fl) - 1 /\ k < k + 1
    BY <1>1
  <2>5. QED
    BY <1>2, <2>2, <2>3, <2>4
<1>7. /\ b < next
      /\ EndIn(sz2, b) = EndIn(sz, next)
      /\ \A c \in Addr : c # b /\ c # next => sz2[c] = sz[c]
      /\ Tiled((O \cup ToSet(fl)) \ {next}, sz2, hb)
  <2>1. b \in O \cup ToSet(fl) /\ next \in O \cup ToSet(fl)
    BY <1>1, <1>4
  <2>2. Tiled(O \cup ToSet(fl), sz, hb)
    BY <1>2
  <2>3. EndIn(sz, b) = next
    BY <1>4
  <2> DEFINE B == O \cup ToSet(fl)
  <2>4. Tiled(B, sz, hb) /\ b \in B /\ next \in B
    BY <2>1, <2>2
  <2> HIDE DEF B
  <2>5. /\ b < next
        /\ EndIn(sz2, b) = EndIn(sz, next)
        /\ \A c \in Addr : c # b /\ c # next => sz2[c] = sz[c]
        /\ Tiled(B \ {next}, sz2, hb)
    BY <2>3, <2>4, JoinTiled
  <2>6. QED
    BY <2>5 DEF B
<1>8. (O \cup ToSet(fl)) \ {next} = O \cup ToSet(fl2)
  BY <1>2, <1>4, <1>6
<1>9. \A a \in O : sz2[a] = sz[a]
  BY <1>1, <1>2, <1>4, <1>7
<1>10. b # next
  BY <1>1, <1>7
<1>11. \A a \in ToSet(fl2) \ {b} : EndIn(sz2, a) = EndIn(sz, a)
  BY <1>1, <1>6, <1>7 DEF EndIn
<1>12. Apart(ToSet(fl2) \ {b}, sz2)
  BY <1>2, <1>6, <1>11 DEF Apart
<1>13. EndIn(sz2, b) \notin ToSet(fl2)
  <2>1. EndIn(sz, next) # b
    <3>1. b \in Nat /\ next \in Nat /\ sz[next] \in Nat /\ EndIn(sz, next) = next + 12 + sz[next]
      BY <1>1, <1>4
    <3>2. QED
      BY <1>7, <3>1
  <2>2. next \in ToSet(fl) \ {b}
    BY <1>4, <1>10
  <2>3. EndIn(sz, next) \notin ToSet(fl) \ {b}
    BY <1>2, <2>2 DEF Apart
  <2>4. QED
    BY <1>6, <1>7, <2>1, <2>3
<1>14. O \cap ToSet(fl2) = {} /\ Tiled(O \cup ToSet(fl2), sz2, hb)
  BY <1>2, <1>6, <1>7, <1>8
<1>15. QED
  BY <1>2, <1>6, <1>9, <1>12, <1>13, <1>14 DEF Listed

\* The block has been joined with both, and the owners have lost nothing.
Settled(fl, sz, O, hb, before) ==
  /\ fl \in Seq(Addr) /\ Ascends(fl)
  /\ Tiled(O \cup ToSet(fl), sz, hb) /\ O \cap ToSet(fl) = {}
  /\ Apart(ToSet(fl), sz)
  /\ \A a \in O : sz[a] = before[a]

\* The block in front is not free.
LEMMA NoPrevious ==
  ASSUME NEW fl, NEW sz, NEW b, NEW k, NEW O, NEW hb, Listed(fl, sz, b, k, O, hb),
         EndIn(sz, b) \notin ToSet(fl), ~JoinsPrevious(fl, sz, k)
  PROVE  Apart(ToSet(fl), sz)
<1>1. /\ Len(fl) \in Nat /\ k \in Nat /\ k >= 1 /\ k <= Len(fl)
      /\ \A i, j \in 1 .. Len(fl) : EndIn(sz, fl[i]) = fl[j] => j = i + 1
      /\ \A a \in ToSet(fl) : \E j \in 1 .. Len(fl) : fl[j] = a
  BY ListedFact
<1>2. fl[k] = b /\ k \in 1 .. Len(fl) /\ Apart(ToSet(fl) \ {b}, sz)
  BY DEF Listed
<1>3. ASSUME NEW a \in ToSet(fl) PROVE EndIn(sz, a) # b
  <2> SUFFICES ASSUME EndIn(sz, a) = b PROVE FALSE
    OBVIOUS
  <2>1. PICK j \in 1 .. Len(fl) : fl[j] = a
    BY <1>1
  <2>2. k = j + 1
    BY <1>1, <1>2, <2>1
  <2>3. j = k - 1 /\ k > 1
    BY <1>1, <2>2
  <2>4. JoinsPrevious(fl, sz, k)
    BY <1>2, <2>1, <2>3 DEF JoinsPrevious, EndIn
  <2>5. QED
    BY <2>4
<1>4. QED
  BY <1>2, <1>3 DEF Apart

\* The list and the sizes once the block at position k is in the one in front.
Absorbed(fl, sz, b, k, fl2, sz2) ==
  fl2 = RemoveAt(fl, k) /\ Joined(sz, fl[k - 1], b, sz2)

\* The block in front is free and takes in the freed one.
LEMMA JoinPrevious ==
  ASSUME NEW fl, NEW sz, NEW b, NEW k, NEW O, NEW hb, Listed(fl, sz, b, k, O, hb),
         EndIn(sz, b) \notin ToSet(fl), JoinsPrevious(fl, sz, k),
         NEW fl2, NEW sz2, Absorbed(fl, sz, b, k, fl2, sz2)
  PROVE  Settled(fl2, sz2, O, hb, sz)
<1> DEFINE prev == fl[k - 1]
<1>1. /\ Len(fl) \in Nat /\ k \in Nat /\ k >= 1 /\ k <= Len(fl)
      /\ b \in ToSet(fl) /\ b \in Addr
      /\ \A j \in 1 .. Len(fl) : fl[j] \in ToSet(fl)
      /\ ToSet(fl) \subseteq Addr
      /\ \A a \in ToSet(fl) : a \in Nat /\ sz[a] \in Nat /\ EndIn(sz, a) = a + 12 + sz[a]
  BY ListedFact
<1>2. /\ fl \in Seq(Addr) /\ Ascends(fl) /\ fl[k] = b /\ Tiled(O \cup ToSet(fl), sz, hb)
      /\ O \cap ToSet(fl) = {} /\ O \subseteq Addr /\ Apart(ToSet(fl) \ {b}, sz)
      /\ k \in 1 .. Len(fl)
  BY DEF Listed
<1>3. k > 1 /\ EndIn(sz, prev) = b
  BY <1>2 DEF JoinsPrevious, EndIn
<1>4. prev \in ToSet(fl)
  <2>1. k - 1 \in 1 .. Len(fl)
    BY <1>1, <1>3
  <2>2. QED
    BY <1>1, <2>1
<1>5. fl2 = RemoveAt(fl, k) /\ Joined(sz, prev, b, sz2)
  BY DEF Absorbed
<1> HIDE DEF prev
<1>6. fl2 \in Seq(Addr) /\ Ascends(fl2) /\ ToSet(fl2) = ToSet(fl) \ {b}
  <2>1. Addr \in SUBSET Int
    BY AddrFact
  <2>2. Ascends(fl2) /\ ToSet(fl2) = ToSet(fl) \ {b}
    BY <1>2, <1>5, <2>1, RemoveAscends
  <2>3. fl2 \in Seq(Addr)
    BY <1>2, <1>5, RemoveAtProp
  <2>4. QED
    BY <2>2, <2>3
<1> DEFINE B == O \cup ToSet(fl)
<1>7. Tiled(B, sz, hb) /\ b \in B /\ prev \in B
  BY <1>1, <1>2, <1>4
<1>8. B \ {b} = O \cup ToSet(fl2)
  BY <1>1, <1>2, <1>6
<1> HIDE DEF B
<1>9. EndIn(sz, prev) = b
  BY <1>3
<1>10. /\ prev < b
       /\ EndIn(sz2, prev) = EndIn(sz, b)
       /\ \A c \in Addr : c # prev /\ c # b => sz2[c] = sz[c]
       /\ Tiled(B \ {b}, sz2, hb)
  BY <1>5, <1>7, <1>9, JoinTiled
<1>11. \A a \in O : sz2[a] = sz[a]
  BY <1>1, <1>2, <1>4, <1>10
<1>12. ASSUME NEW a \in ToSet(fl2), NEW c \in ToSet(fl2) PROVE EndIn(sz2, a) # c
  <2>1. CASE a = prev
    BY <1>6, <1>10, <2>1
  <2>2. CASE a # prev
    <3>1. a \in Addr /\ a # b /\ a \in ToSet(fl) \ {b} /\ c \in ToSet(fl) \ {b}
      BY <1>1, <1>6
    <3>2. EndIn(sz2, a) = EndIn(sz, a)
      BY <1>10, <2>2, <3>1 DEF EndIn
    <3>3. QED
      BY <1>2, <3>1, <3>2 DEF Apart
  <2>3. QED
    BY <2>1, <2>2
<1>13. Tiled(O \cup ToSet(fl2), sz2, hb) /\ O \cap ToSet(fl2) = {}
  BY <1>2, <1>6, <1>8, <1>10
<1>14. QED
  BY <1>6, <1>11, <1>12, <1>13 DEF Apart, Settled

\* What becomes of the owners, their marks and the bytes they hold.
LEMMA OwnersLess ==
  ASSUME HeapInv, NEW block \in Owners(asked), NEW sz2,
         \A a \in Owners(asked) \ {block} : sz2[a] = size[a]
  PROVE  LET ask2 == [asked EXCEPT ![block] = 0]
             O    == Owners(asked) \ {block}
         IN  /\ ask2 \in [Addr -> Nat] /\ Owners(ask2) = O
             /\ \A a \in O : sz2[a] >= ask2[a]
             /\ Marks([magic EXCEPT ![block] = FREE], O)
             /\ heap_used - (Header + size[block]) = Cardinality(BytesOf(O, sz2))
<1> DEFINE ask2 == [asked EXCEPT ![block] = 0]
           O    == Owners(asked) \ {block}
           F    == ToSet(free_list)
<1>1. /\ asked \in [Addr -> Nat] /\ Tiled(Owners(asked) \cup F, size, heap_begin)
      /\ \A a \in Owners(asked) : size[a] >= asked[a]
      /\ Marks(magic, Owners(asked))
      /\ heap_used = Cardinality(BytesOf(Owners(asked), size))
  BY DEF HeapInv, HeapOK
<1>2. block \in Addr
  BY DEF Owners
<1>3. ask2 \in [Addr -> Nat] /\ \A a \in Addr : ask2[a] = IF a = block THEN 0 ELSE asked[a]
  BY <1>1, <1>2
<1>4. Owners(ask2) = O
  <2> HIDE DEF ask2
  <2>1. QED
    BY <1>1, <1>3 DEF Owners
<1>5. \A a \in O : sz2[a] >= ask2[a]
  <2>1. \A a \in O : ask2[a] = asked[a]
    BY <1>3 DEF Owners
  <2> HIDE DEF ask2
  <2>2. QED
    BY <1>1, <2>1
<1>6. Marks([magic EXCEPT ![block] = FREE], O)
  BY <1>1, <1>2 DEF Marks, ALLOCATED, FREE
<1>7. Cardinality(BytesOf(O, sz2)) = Cardinality(BytesOf(O, size))
  <2>1. \A a \in O : sz2[a] = size[a]
    OBVIOUS
  <2> HIDE DEF O
  <2>2. BytesOf(O, sz2) = BytesOf(O, size)
    BY <2>1, BytesSame
  <2>3. QED
    BY <2>2
<1>8. Cardinality(BytesOf(Owners(asked), size)) = Cardinality(BytesOf(O, size)) + Header + size[block]
  <2>1. O \cup {block} = Owners(asked) /\ block \notin O
    OBVIOUS
  <2> DEFINE B == Owners(asked) \cup F
  <2>2. O \in SUBSET B /\ block \in B /\ Tiled(B, size, heap_begin)
    BY <1>1
  <2> HIDE DEF O, B
  <2>3. Cardinality(BytesOf(O \cup {block}, size)) = Cardinality(BytesOf(O, size)) + Header + size[block]
    BY <2>1, <2>2, BytesAdd
  <2>4. QED
    BY <2>1, <2>3
<1> HIDE DEF O
<1>9. heap_used - (Header + size[block]) = Cardinality(BytesOf(O, sz2))
  <2>1. Cardinality(BytesOf(O, size)) \in Nat
    BY BytesFinite, AddrFact
  <2>2. size[block] \in Nat
    BY <1>1, <1>2, TiledFact
  <2>3. QED
    BY <1>1, <1>7, <1>8, <2>1, <2>2 DEF Header
<1>10. QED
  BY <1>3, <1>4, <1>5, <1>6, <1>9 DEF O

\* kfree takes the pointers of owners, and no other.
LEMMA AcceptsOwned ==
  ASSUME HeapInv, NEW block \in Addr, Accepts(block)
  PROVE  block \in Owners(asked)
BY DEF HeapInv, HeapOK, Marks, Accepts

\* The freed block is put in its place.
LEMMA PutInList ==
  ASSUME HeapInv, NEW block \in Owners(asked),
         NEW k, k = Before(block) + 1,
         NEW list0, list0 = InsertAt(free_list, k, block)
  PROVE  Listed(list0, size, block, k, Owners(asked) \ {block}, heap_begin)
<1> DEFINE O == Owners(asked)
           F == ToSet(free_list)
<1>1. /\ free_list \in Seq(Addr) /\ Ascends(free_list)
      /\ Tiled(O \cup F, size, heap_begin) /\ O \cap F = {} /\ Apart(F, size)
  BY DEF HeapInv, HeapOK
<1>2. O \subseteq Addr /\ block \in Addr
  BY DEF Owners
<1>3. block \notin F
  BY <1>1
<1> HIDE DEF O, F
<1>4. Addr \in SUBSET Int /\ block \in Int
  BY <1>2, AddrFact
<1>5. /\ Before(block) \in 0 .. Len(free_list)
      /\ \A i \in DOMAIN free_list : free_list[i] < block <=> i <= Before(block)
  BY <1>1, <1>4, CountBefore DEF Before
<1>6. Len(free_list) \in Nat /\ DOMAIN free_list = 1 .. Len(free_list)
  BY <1>1, <1>4, ListFact
<1>7. k \in 1 .. Len(free_list) + 1 /\ \A i \in DOMAIN free_list : free_list[i] < block <=> i < k
  <2>1. k \in Nat /\ k >= 1 /\ k <= Len(free_list) + 1
    BY <1>5, <1>6
  <2>2. ASSUME NEW i \in DOMAIN free_list PROVE i <= Before(block) <=> i < k
    BY <1>5, <1>6
  <2>3. QED
    BY <1>5, <1>6, <2>1, <2>2
<1>8. Ascends(list0) /\ ToSet(list0) = F \cup {block}
  <2>1. block \notin ToSet(free_list)
    BY <1>3 DEF F
  <2>2. QED
    BY <1>1, <1>2, <1>4, <1>7, <2>1, InsertAscends DEF F
<1>9. list0 \in Seq(Addr) /\ k \in 1 .. Len(list0) /\ list0[k] = block
  <2>1. /\ list0 \in Seq(Addr) /\ Len(list0) = Len(free_list) + 1
        /\ \A j \in 1 .. Len(free_list) + 1 :
             list0[j] = IF j < k THEN free_list[j] ELSE IF j = k THEN block ELSE free_list[j - 1]
    <3>1. free_list \in Seq(Addr) /\ block \in Addr /\ k \in 1 .. Len(free_list) + 1
      BY <1>1, <1>2, <1>7
    <3> DEFINE list == InsertAt(free_list, k, block)
    <3>2. /\ list \in Seq(Addr) /\ Len(list) = Len(free_list) + 1
          /\ \A j \in 1 .. Len(free_list) + 1 :
               list[j] = IF j < k THEN free_list[j] ELSE IF j = k THEN block ELSE free_list[j - 1]
      BY <3>1, InsertAtProp, SMTT(90)
    <3> HIDE DEF list
    <3>3. list0 = list
      BY DEF list
    <3>4. QED
      BY <3>2, <3>3
  <2>2. ~(k < k)
    BY <1>6, <1>7
  <2>3. QED
    BY <1>7, <2>1, <2>2
<1>10. (O \ {block}) \cup ToSet(list0) = O \cup F /\ (O \ {block}) \cap ToSet(list0) = {}
  BY <1>1, <1>8 DEF O
<1>11. ToSet(list0) \ {block} = F
  BY <1>3, <1>8
<1>12. QED
  BY <1>1, <1>2, <1>8, <1>9, <1>10, <1>11 DEF Listed, O

LEMMA KfreeKeeps ==
  ASSUME HeapInv, NEW block \in Addr, Kfree(block)
  PROVE  HeapInv'
<1> DEFINE k     == Before(block) + 1
           list0 == InsertAt(free_list, k, block)
           next  == list0[k + 1]
           joins == k < Len(list0) /\ JoinsPrevious(list0, size, k + 1)
           list1 == IF joins THEN RemoveAt(list0, k + 1) ELSE list0
           size1 == IF joins
                    THEN [size EXCEPT ![block] = @ + Header + size[next], ![next] = 0]
                    ELSE size
           previous == list1[k - 1]
           O == Owners(asked) \ {block}
<1>1. /\ Accepts(block)
      /\ heap_used' = heap_used - (Header + size[block])
      /\ magic' = [magic EXCEPT ![block] = FREE]
      /\ IF JoinsPrevious(list1, size1, k)
         THEN /\ free_list' = RemoveAt(list1, k)
              /\ size' = [size1 EXCEPT ![previous] = @ + Header + size1[block], ![block] = 0]
         ELSE /\ free_list' = list1
              /\ size' = size1
      /\ asked' = [asked EXCEPT ![block] = 0]
      /\ heap_begin' = heap_begin /\ halted' = halted
  BY DEF Kfree
<1>2. block \in Owners(asked)
  BY <1>1, AcceptsOwned
<1>3. Listed(list0, size, block, k, O, heap_begin)
  <2> HIDE DEF list0, k
  <2>1. k = Before(block) + 1 /\ list0 = InsertAt(free_list, k, block)
    BY DEF list0, k
  <2>2. QED
    BY <1>2, <2>1, PutInList
<1> HIDE DEF k, list0, O
<1>4. joins => list1 = RemoveAt(list0, k + 1) /\ Joined(size, block, next, size1)
  BY DEF Joined
<1>5. ~joins => list1 = list0 /\ size1 = size
  OBVIOUS
<1>6. joins <=> k < Len(list0) /\ JoinsPrevious(list0, size, k + 1)
  OBVIOUS
<1>7. JoinsPrevious(list1, size1, k) => Absorbed(list1, size1, block, k, free_list', size')
  BY <1>1 DEF Joined, Absorbed
<1>8. ~JoinsPrevious(list1, size1, k) => free_list' = list1 /\ size' = size1
  BY <1>1
<1>9. next = list0[k + 1]
  OBVIOUS
<1> HIDE DEF joins, list1, size1, next
<1>10. /\ Listed(list1, size1, block, k, O, heap_begin)
       /\ EndIn(size1, block) \notin ToSet(list1)
       /\ \A a \in O : size1[a] = size[a]
  <2>1. CASE joins
    BY <1>3, <1>4, <1>6, <1>9, <2>1, JoinNext
  <2>2. CASE ~joins
    BY <1>3, <1>5, <1>6, <2>2, NoNext
  <2>3. QED
    BY <2>1, <2>2
<1>11. /\ free_list' \in Seq(Addr) /\ Ascends(free_list')
       /\ Tiled(O \cup ToSet(free_list'), size', heap_begin)
       /\ O \cap ToSet(free_list') = {}
       /\ Apart(ToSet(free_list'), size')
       /\ \A a \in O : size'[a] = size[a]
  <2>1. CASE JoinsPrevious(list1, size1, k)
    <3>1. Settled(free_list', size', O, heap_begin, size1)
      <4>1. Listed(list1, size1, block, k, O, heap_begin) /\ EndIn(size1, block) \notin ToSet(list1)
        BY <1>10
      <4>2. Absorbed(list1, size1, block, k, free_list', size')
        BY <1>7, <2>1
      <4>3. QED
        BY <2>1, <4>1, <4>2, JoinPrevious
    <3>2. QED
      BY <1>10, <3>1 DEF Settled
  <2>2. CASE ~JoinsPrevious(list1, size1, k)
    <3>1. Apart(ToSet(list1), size1)
      BY <1>10, <2>2, NoPrevious
    <3>2. QED
      BY <1>8, <1>10, <2>2, <3>1 DEF Listed
  <2>3. QED
    BY <2>1, <2>2
<1>12. /\ asked' \in [Addr -> Nat] /\ Owners(asked') = O
       /\ \A a \in O : size'[a] >= asked'[a]
       /\ Marks(magic', O)
       /\ heap_used' = Cardinality(BytesOf(O, size'))
  BY <1>1, <1>2, <1>11, OwnersLess DEF O
<1>13. halted' \in BOOLEAN
  BY <1>1 DEF HeapInv
<1>14. QED
  BY <1>1, <1>11, <1>12, <1>13 DEF HeapInv, HeapOK

---------------------------------------------------------------------------
(* The theorems *)

LEMMA HeapInit == Init => HeapInv
<1> SUFFICES ASSUME Init PROVE HeapInv
  OBVIOUS
<1>1. /\ heap_begin = HEAP_START /\ free_list = << >> /\ size = [a \in Addr |-> 0]
      /\ magic = [a \in Addr |-> FREE] /\ heap_used = 0 /\ halted = FALSE
      /\ asked = [a \in Addr |-> 0]
  BY DEF Init
<1>2. Owners(asked) = {}
  BY <1>1 DEF Owners
<1>3. ToSet(free_list) = {} /\ free_list \in Seq(Addr) /\ Ascends(free_list)
  BY <1>1 DEF ToSet, Ascends
<1>4. Tiled({}, size, heap_begin)
  BY <1>1, AddrFact DEF Tiled
<1>5. Marks(magic, {})
  BY <1>1 DEF Marks, ALLOCATED, FREE
<1>6. BytesOf({}, size) = {}
  BY DEF BytesOf
<1>7. heap_used = Cardinality(BytesOf({}, size))
  BY <1>1, <1>6, FS_EmptySet
<1>8. Apart({}, size)
  BY DEF Apart
<1>9. asked \in [Addr -> Nat] /\ halted \in BOOLEAN
  BY <1>1
<1>10. Owners(asked) \cup ToSet(free_list) = {}
  BY <1>2, <1>3
<1>11. QED
  BY <1>2, <1>3, <1>4, <1>5, <1>7, <1>8, <1>9, <1>10 DEF HeapInv, HeapOK

LEMMA HeapNext == HeapInv /\ [Next]_vars => HeapInv'
<1> SUFFICES ASSUME HeapInv, [Next]_vars PROVE HeapInv'
  OBVIOUS
<1>1. ASSUME NEW n \in Requests, KmallocFree(n) PROVE HeapInv'
  BY <1>1, KmallocFreeKeeps
<1>2. ASSUME NEW n \in Requests, KmallocBump(n) PROVE HeapInv'
  BY <1>2, KmallocBumpKeeps
<1>3. ASSUME NEW n \in Requests, KmallocPanics(n) PROVE HeapInv'
  BY <1>3 DEF KmallocPanics, HeapInv
<1>4. ASSUME NEW a \in Addr, Kfree(a) PROVE HeapInv'
  BY <1>4, KfreeKeeps
<1>5. CASE UNCHANGED vars
  BY <1>5 DEF vars, HeapInv
<1>6. QED
  BY <1>1, <1>2, <1>3, <1>4, <1>5 DEF Next

LEMMA HeapAlways == Spec => []HeapInv
BY HeapInit, HeapNext, PTL DEF Spec

\* What the invariant says in the words of the model.
LEMMA HeapInvNames ==
  ASSUME HeapInv
  PROVE  /\ Owners(asked) = Owned /\ ToSet(free_list) = Free
         /\ \A a : EndIn(size, a) = End(a)
         /\ BytesOf(Owners(asked), size) = UsedBytes
<1>1. Owners(asked) = Owned
  BY DEF Owners, Owned
<1>2. ToSet(free_list) = Free
  BY DEF ToSet, Free
<1>3. \A a : EndIn(size, a) = End(a)
  BY DEF EndIn, End
<1>4. QED
  BY <1>1, <1>2, <1>3 DEF BytesOf, UsedBytes

\* Sizes, marks and the figure of bytes in use stay in range.
THEOREM HeapTypes == Spec => []TypeOK
<1>1. HeapInv => TypeOK
  <2> SUFFICES ASSUME HeapInv PROVE TypeOK
    OBVIOUS
  <2>1. /\ free_list \in Seq(Addr) /\ asked \in [Addr -> Nat]
        /\ Tiled(Owners(asked) \cup ToSet(free_list), size, heap_begin)
        /\ Marks(magic, Owners(asked))
        /\ heap_used = Cardinality(BytesOf(Owners(asked), size))
        /\ halted \in BOOLEAN
    BY DEF HeapInv, HeapOK
  <2>2. heap_begin \in HEAP_START .. heap_end /\ size \in [Addr -> 0 .. HEAP_SIZE]
    BY <2>1 DEF Tiled
  <2>3. magic \in [Addr -> {ALLOCATED, FREE}]
    BY <2>1 DEF Marks
  <2>4. heap_used \in 0 .. HEAP_SIZE
    BY <2>1, BytesFinite
  <2>5. QED
    BY <2>1, <2>2, <2>3, <2>4 DEF TypeOK
<1>2. QED
  BY <1>1, HeapAlways, PTL

\* However blocks are split and joined, they tile the heap: none overlaps
\* another, none is lost, and every owner has the bytes it asked for.
THEOREM HeapStaysTiled == Spec => []HeapTiled
<1>1. HeapInv => HeapTiled
  <2> SUFFICES ASSUME HeapInv PROVE HeapTiled
    OBVIOUS
  <2>1. /\ Tiled(Owned \cup Free, size, heap_begin)
        /\ Owned \cap Free = {}
        /\ \A a \in Owned : size[a] >= asked[a]
    BY HeapInvNames DEF HeapInv, HeapOK
  <2>2. \A a : EndIn(size, a) = End(a)
    BY HeapInvNames
  <2>3. QED
    BY <2>1, <2>2 DEF HeapTiled, Tiled, Blocks
<1>2. QED
  BY <1>1, HeapAlways, PTL

\* The free list stays in address order, and kfree leaves no two free
\* neighbours behind, whichever of them it finds free.
THEOREM FreeListStaysOK == Spec => []FreeListOK
<1>1. HeapInv => FreeListOK
  <2> SUFFICES ASSUME HeapInv PROVE FreeListOK
    OBVIOUS
  <2>1. Ascends(free_list) /\ Apart(Free, size)
    BY HeapInvNames DEF HeapInv, HeapOK
  <2>2. \A a : EndIn(size, a) = End(a)
    BY HeapInvNames
  <2>3. QED
    BY <2>1, <2>2 DEF FreeListOK, Ascends, Apart
<1>2. QED
  BY <1>1, HeapAlways, PTL

\* heap_used is the number of bytes that owners hold, headers included, after
\* any sequence of allocations and frees.
THEOREM HeapUsedIsExact == Spec => []HeapUsedExact
<1>1. HeapInv => HeapUsedExact
  <2> SUFFICES ASSUME HeapInv PROVE HeapUsedExact
    OBVIOUS
  <2>1. heap_used = Cardinality(BytesOf(Owners(asked), size))
    BY DEF HeapInv, HeapOK
  <2>2. QED
    BY <2>1, HeapInvNames DEF HeapUsedExact
<1>2. QED
  BY <1>1, HeapAlways, PTL

\* kfree never takes a pointer that is not an owner's: not one that was freed
\* before, and not one into the middle of a block.
THEOREM StrayFreesIgnored == Spec => StrayFreeIgnored
<1>1. HeapInv => \A a \in Addr \ Owned : ~Kfree(a)
  <2> SUFFICES ASSUME HeapInv, NEW a \in Addr \ Owned, Kfree(a) PROVE FALSE
    OBVIOUS
  <2>1. Accepts(a)
    BY DEF Kfree
  <2>2. a \in Owners(asked)
    BY <2>1, AcceptsOwned
  <2>3. QED
    BY <2>2, HeapInvNames
<1>2. QED
  BY <1>1, HeapAlways, PTL DEF StrayFreeIgnored

============================================================================
