------------------------------ MODULE RcuProofs ------------------------------
(***************************************************************************)
(* What holds of rcucmap.c for every number of keys, nodes and updates.    *)
(* First the lists of the map and the nodes on them, on their way to       *)
(* call_rcu and waiting for their grace period; then what the reader meets *)
(* while the writer changes the lists under it.                            *)
(***************************************************************************)
EXTENDS RcuCmap, TLAPS

\* The prover of the leaves that name no other.
USE Zenon

-----------------------------------------------------------------------------
\* The lists.  ChainSound, element by element.
ListTypes ==
    /\ first \in [Heads -> Addr \union {End}] /\ next \in [Addr -> Addr \union {End}]
    /\ on \in [Heads -> SUBSET Addr]

Linked(h) ==
    /\ first[h] \in on[h] \union {End}
    /\ \A x \in on[h] : next[x] \in on[h] \union {End} /\ first[h] # next[x]
    /\ \A y \in on[h] \union {End} : y = first[h] \/ \E x \in on[h] : next[x] = y
    /\ \A x, y \in on[h] : next[x] = next[y] => x = y

\* A list is in the order of pos: it has no cycle, and a walk over it leaves nothing out.
Sorted(h, pos) ==
    \A x \in on[h] :
      /\ first[h] # End /\ pos[first[h]] <= pos[x]
      /\ next[x] # End => pos[x] < pos[next[x]]
      /\ \A y \in on[h] : /\ pos[x] < pos[y] => next[x] # End /\ pos[next[x]] <= pos[y]
                          /\ pos[x] = pos[y] => x = y

Positions == [Addr -> Int]

ListInv ==
    /\ ListTypes
    /\ \A h \in Heads : Linked(h)
    /\ \A g, h \in Heads : g # h => on[g] \intersect on[h] = {}
    /\ \E pos \in Positions : \A h \in Heads : Sorted(h, pos)

LEMMA EndIsNoNode == End \notin Addr
  BY RcuListAssumption DEF End

LEMMA LinkedIsSound ==
  ASSUME NEW h \in Heads, Linked(h)
  PROVE  ChainSound(h)
<1>1. {first[h]} \union {next[a] : a \in on[h]} = on[h] \union {End}
  <2>1. \A y : y \in {first[h]} \union {next[a] : a \in on[h]} => y \in on[h] \union {End}
    BY SMT DEF Linked
  <2>2. \A y : y \in on[h] \union {End} => y \in {first[h]} \union {next[a] : a \in on[h]}
    BY DEF Linked
  <2>3. QED  BY <2>1, <2>2
<1>2. QED  BY <1>1 DEF ChainSound, Linked

\* A step that leaves list h, its first node and its links alone.
LEMMA OtherList ==
  ASSUME NEW h \in Heads, NEW pos \in Positions, Linked(h), Sorted(h, pos),
         on'[h] = on[h], first'[h] = first[h], \A x \in on[h] : next'[x] = next[x],
         NEW q \in Positions, \A x \in on[h] : q[x] = pos[x]
  PROVE  Linked(h)' /\ Sorted(h, q)'
<1>1. Linked(h)'  BY SMT DEF Linked
<1>2. \A x \in on[h] : /\ first[h] # End => first[h] \in on[h]
                       /\ next[x] # End => next[x] \in on[h]
  BY DEF Linked
<1>3. Sorted(h, q)'  BY <1>2, SMT DEF Sorted
<1>4. QED  BY <1>1, <1>3

\* list_add_rcu of a node that is on no list.
LEMMA Added ==
  ASSUME ListInv, NEW h \in Heads, NEW a \in Addr, \A g \in Heads : a \notin on[g],
         AddRcu(h, a)
  PROVE  ListInv'
<1>1. PICK pos \in Positions : \A g \in Heads : Sorted(g, pos)  BY DEF ListInv
<1>2. /\ first \in [Heads -> Addr \union {End}] /\ next \in [Addr -> Addr \union {End}]
      /\ on \in [Heads -> SUBSET Addr] /\ Linked(h) /\ Sorted(h, pos)
  BY <1>1 DEF ListInv, ListTypes
<1>3. /\ next' = [next EXCEPT ![a] = first[h]] /\ first' = [first EXCEPT ![h] = a]
      /\ on' = [on EXCEPT ![h] = @ \union {a}]
  BY DEF AddRcu
<1>4. /\ first' \in [Heads -> Addr \union {End}] /\ next' \in [Addr -> Addr \union {End}]
      /\ on' \in [Heads -> SUBSET Addr]
      /\ next'[a] = first[h] /\ first'[h] = a /\ on'[h] = on[h] \union {a}
      /\ \A x \in Addr : x # a => next'[x] = next[x]
      /\ \A g \in Heads : g # h => first'[g] = first[g] /\ on'[g] = on[g]
  BY <1>2, <1>3
<1>5. a # End /\ a \notin on[h] /\ End \notin on[h] /\ on[h] \subseteq Addr
  BY <1>2, EndIsNoNode
<1>6. PICK lowest \in Int : lowest = IF first[h] = End THEN 0 ELSE pos[first[h]]
  BY <1>2, SMT DEF Positions
<1>7. PICK q \in Positions : q[a] = lowest - 1 /\ \A x \in Addr : x # a => q[x] = pos[x]
  <2>1. /\ [pos EXCEPT ![a] = lowest - 1] \in Positions
        /\ [pos EXCEPT ![a] = lowest - 1][a] = lowest - 1
        /\ \A x \in Addr : x # a => [pos EXCEPT ![a] = lowest - 1][x] = pos[x]
    BY <1>6, SMT DEF Positions
  <2>2. QED  BY <2>1
<1>8. Linked(h)'
  <2>1. \A x \in on[h] : next'[x] = next[x]  BY <1>4, <1>5
  <2>2. QED  BY <1>2, <1>4, <1>5, <2>1, SMT DEF Linked
<1>9. Sorted(h, q)'
  <2>1. \A x \in on[h] : next'[x] = next[x] /\ q[x] = pos[x] /\ pos[x] \in Int /\ q[a] < q[x]
    <3>1. \A x \in on[h] : lowest <= pos[x] /\ pos[x] \in Int
      BY <1>2, <1>5, <1>6 DEF Sorted, Positions
    <3>2. QED  BY <1>4, <1>5, <1>6, <1>7, <3>1, SMT
  <2>2. q[a] \in Int  BY <1>6, <1>7, SMT
  <2>3. \A x \in on[h] : /\ next[x] # End => next[x] \in on[h]
                         /\ first[h] # End => first[h] \in on[h]
    BY <1>2 DEF Linked
  <2>4. \A x \in on[h] : q[first'[h]] <= q[x] /\ first'[h] # End
    BY <1>4, <1>5, <2>1, <2>2, SMT
  <2>5. ASSUME NEW x \in on[h]
        PROVE  /\ next'[x] # End => q[x] < q[next'[x]]
               /\ \A y \in on'[h] : /\ q[x] < q[y] => next'[x] # End /\ q[next'[x]] <= q[y]
                                    /\ q[x] = q[y] => x = y
    <3>1. next'[x] = next[x] /\ q[x] = pos[x] /\ pos[x] \in Int /\ q[a] < q[x]  BY <2>1
    <3>2. next[x] # End => next[x] \in on[h] /\ q[next[x]] = pos[next[x]] /\ pos[x] < pos[next[x]]
      BY <1>2, <2>1, <2>3 DEF Sorted
    <3>3. \A y \in on[h] : /\ q[y] = pos[y]
                           /\ pos[x] < pos[y] => next[x] # End /\ pos[next[x]] <= pos[y]
                           /\ pos[x] = pos[y] => x = y
      BY <1>2, <2>1 DEF Sorted
    <3>4. ~ (q[x] < q[a]) /\ q[x] # q[a]  BY <2>2, <3>1, SMT
    <3>5. QED  BY <1>4, <3>1, <3>2, <3>3, <3>4
  <2>6. /\ next'[a] # End => q[a] < q[next'[a]]
        /\ \A y \in on'[h] : /\ q[a] < q[y] => next'[a] # End /\ q[next'[a]] <= q[y]
                             /\ q[a] = q[y] => a = y
    <3>1. next'[a] # End => next'[a] \in on[h]  BY <1>2, <1>4 DEF Linked
    <3>2. \A y \in on[h] : /\ q[a] < q[y] /\ q[a] # q[y]
                           /\ next'[a] # End /\ q[next'[a]] <= q[y]
      BY <1>2, <1>4, <2>1, <2>2, <2>3, SMT DEF Sorted
    <3>3. ~ (q[a] < q[a])  BY <2>2, SMT
    <3>4. QED  BY <1>4, <2>1, <3>1, <3>2, <3>3
  <2>7. q[first'[h]] <= q[a] /\ first'[h] # End  BY <1>4, <1>5, <2>2, SMT
  <2>8. QED  BY <1>4, <2>4, <2>5, <2>6, <2>7 DEF Sorted
<1>10. ASSUME NEW g \in Heads, g # h PROVE Linked(g)' /\ Sorted(g, q)'
  <2>1. /\ Linked(g) /\ Sorted(g, pos) /\ on[g] \subseteq Addr /\ a \notin on[g]
    BY <1>1, <1>2, <1>10 DEF ListInv
  <2>2. QED  BY <1>4, <1>7, <1>10, <2>1, OtherList, SMT
<1>11. \A f, g \in Heads : f # g => on'[f] \intersect on'[g] = {}
  BY <1>4, SMT DEF ListInv
<1>12. \A g \in Heads : Linked(g)' /\ Sorted(g, q)'  BY <1>8, <1>9, <1>10
<1>13. ListTypes'  BY <1>4 DEF ListTypes
<1>14. QED  BY <1>7, <1>11, <1>12, <1>13 DEF ListInv

\* Who points where after list_del_rcu and list_replace_rcu.
LEMMA DelLinks ==
  ASSUME ListInv, NEW h \in Heads, NEW a \in on[h], DelRcu(h, a)
  PROVE  /\ ListTypes'
         /\ on' = [on EXCEPT ![h] = @ \ {a}]
         /\ first' = [first EXCEPT ![h] = IF first[h] = a THEN next[a] ELSE first[h]]
         /\ \A x \in Addr : next'[x] = IF x \in on[h] /\ next[x] = a THEN next[a] ELSE next[x]
<1>1. /\ first \in [Heads -> Addr \union {End}] /\ next \in [Addr -> Addr \union {End}]
      /\ on \in [Heads -> SUBSET Addr] /\ Linked(h) /\ a \in Addr /\ on[h] \subseteq Addr
  BY DEF ListInv, ListTypes
<1>2. on' = [on EXCEPT ![h] = @ \ {a}]  BY DEF DelRcu
<1>3. on' \in [Heads -> SUBSET Addr]  BY <1>1, <1>2
<1>4. CASE first[h] = a
  <2>1. first' = [first EXCEPT ![h] = next[a]] /\ next' = next  BY <1>4 DEF DelRcu
  <2>2. \A x \in on[h] : next[x] # a  BY <1>1, <1>4 DEF Linked
  <2>3. QED  BY <1>1, <1>2, <1>3, <1>4, <2>1, <2>2 DEF ListTypes
<1>5. CASE first[h] # a
  <2>1. \E p \in on[h] : next[p] = a  BY <1>1, <1>5 DEF Linked
  <2>2. PICK p \in on[h] : next[p] = a /\ next' = [next EXCEPT ![p] = next[a]] /\ first' = first
    BY <1>5, <2>1 DEF DelRcu
  <2>3. \A x \in on[h] : next[x] = a => x = p  BY <1>1, <2>2 DEF Linked
  <2>4. \A x \in Addr : next'[x] = IF x \in on[h] /\ next[x] = a THEN next[a] ELSE next[x]
    BY <1>1, <2>2, <2>3
  <2>5. first' = [first EXCEPT ![h] = first[h]] /\ next' \in [Addr -> Addr \union {End}]
    BY <1>1, <2>2
  <2>6. QED  BY <1>1, <1>2, <1>3, <1>5, <2>2, <2>4, <2>5 DEF ListTypes
<1>6. QED  BY <1>4, <1>5

LEMMA ReplaceLinks ==
  ASSUME ListInv, NEW h \in Heads, NEW a \in on[h], NEW c \in Addr,
         \A g \in Heads : c \notin on[g], ReplaceRcu(h, a, c)
  PROVE  /\ ListTypes'
         /\ on' = [on EXCEPT ![h] = (@ \ {a}) \union {c}]
         /\ first' = [first EXCEPT ![h] = IF first[h] = a THEN c ELSE first[h]]
         /\ \A x \in Addr : next'[x] = IF x = c THEN next[a]
                                       ELSE IF x \in on[h] /\ next[x] = a THEN c ELSE next[x]
<1>1. /\ first \in [Heads -> Addr \union {End}] /\ next \in [Addr -> Addr \union {End}]
      /\ on \in [Heads -> SUBSET Addr] /\ Linked(h) /\ a \in Addr /\ on[h] \subseteq Addr
      /\ c \notin on[h]
  BY DEF ListInv, ListTypes
<1>2. on' = [on EXCEPT ![h] = (@ \ {a}) \union {c}]  BY DEF ReplaceRcu
<1>3. on' \in [Heads -> SUBSET Addr]  BY <1>1, <1>2
<1>4. CASE first[h] = a
  <2>1. first' = [first EXCEPT ![h] = c] /\ next' = [next EXCEPT ![c] = next[a]]
    BY <1>4 DEF ReplaceRcu
  <2>2. \A x \in on[h] : next[x] # a  BY <1>1, <1>4 DEF Linked
  <2>3. QED  BY <1>1, <1>2, <1>3, <1>4, <2>1, <2>2 DEF ListTypes
<1>5. CASE first[h] # a
  <2>1. \E p \in on[h] : next[p] = a  BY <1>1, <1>5 DEF Linked
  <2>2. PICK p \in on[h] : /\ next[p] = a /\ first' = first
                           /\ next' = [next EXCEPT ![c] = next[a], ![p] = c]
    BY <1>5, <2>1 DEF ReplaceRcu
  <2>3. \A x \in on[h] : next[x] = a => x = p  BY <1>1, <2>2 DEF Linked
  <2>4. \A x \in Addr : next'[x] = IF x = c THEN next[a]
                                   ELSE IF x \in on[h] /\ next[x] = a THEN c ELSE next[x]
    BY <1>1, <2>2, <2>3
  <2>5. first' = [first EXCEPT ![h] = first[h]] /\ next' \in [Addr -> Addr \union {End}]
    BY <1>1, <2>2
  <2>6. QED  BY <1>1, <1>2, <1>3, <1>5, <2>2, <2>4, <2>5, ZenonT(30) DEF ListTypes
<1>6. QED  BY <1>4, <1>5

LEMMA Deleted ==
  ASSUME ListInv, NEW h \in Heads, NEW a \in on[h], DelRcu(h, a)
  PROVE  ListInv'
<1>1. PICK pos \in Positions : \A g \in Heads : Sorted(g, pos)  BY DEF ListInv
<1>2. /\ first \in [Heads -> Addr \union {End}] /\ on \in [Heads -> SUBSET Addr]
      /\ Linked(h) /\ Sorted(h, pos) /\ a \in Addr /\ on[h] \subseteq Addr
  BY <1>1 DEF ListInv, ListTypes
<1>3. /\ on'[h] = on[h] \ {a}
      /\ first'[h] = IF first[h] = a THEN next[a] ELSE first[h]
      /\ \A x \in Addr : next'[x] = IF x \in on[h] /\ next[x] = a THEN next[a] ELSE next[x]
      /\ \A g \in Heads : g # h => first'[g] = first[g] /\ on'[g] = on[g]
  BY <1>2, DelLinks, SMT
<1>4. \A x \in Addr : pos[x] \in Int  BY DEF Positions
<1>5. \A x \in on[h] : /\ next[x] # End => next[x] \in on[h] /\ pos[x] < pos[next[x]]
                       /\ x # a => next'[x] = IF next[x] = a THEN next[a] ELSE next[x]
  BY <1>2, <1>3 DEF Linked, Sorted
<1>6. End \notin on[h] /\ next[a] # a  BY <1>2, <1>4, <1>5, EndIsNoNode, SMT
<1>7. Linked(h)'
  <2>1. first'[h] \in on'[h] \union {End}  BY <1>2, <1>3, <1>6 DEF Linked
  <2>2. \A x \in on'[h] : next'[x] \in on'[h] \union {End} /\ first'[h] # next'[x]
    BY <1>2, <1>3, <1>5, <1>6, SMT DEF Linked
  <2>3. ASSUME NEW y \in on'[h] \union {End}
        PROVE  y = first'[h] \/ \E x \in on'[h] : next'[x] = y
    <3>1. y \in on[h] \union {End} /\ y # a  BY <1>2, <1>3, EndIsNoNode
    <3>2. CASE y = first[h]  BY <1>3, <3>1, <3>2
    <3>3. ASSUME NEW x \in on[h], next[x] = y PROVE y = first'[h] \/ \E z \in on'[h] : next'[z] = y
      <4>1. CASE x # a  BY <1>3, <1>5, <3>1, <3>3, <4>1
      <4>2. CASE x = a /\ first[h] = a  BY <1>3, <3>3, <4>2
      <4>3. CASE x = a /\ first[h] # a
        <5>1. PICK p \in on[h] : next[p] = a  BY <1>2, <4>3 DEF Linked
        <5>2. p # a  BY <1>6, <5>1
        <5>3. QED  BY <1>3, <1>5, <3>3, <4>3, <5>1, <5>2
      <4>4. QED  BY <4>1, <4>2, <4>3
    <3>4. QED  BY <1>2, <3>1, <3>2, <3>3 DEF Linked
  <2>4. \A x, y \in on'[h] : next'[x] = next'[y] => x = y
    BY <1>2, <1>3, <1>5, <1>6, SMT DEF Linked
  <2>5. QED  BY <2>1, <2>2, <2>3, <2>4 DEF Linked
<1>8. Sorted(h, pos)'
  <2>1. ASSUME NEW x \in on[h], x # a
        PROVE  /\ first'[h] # End /\ pos[first'[h]] <= pos[x]
               /\ next'[x] # End => pos[x] < pos[next'[x]]
               /\ \A y \in on[h] : y # a =>
                     /\ pos[x] < pos[y] => next'[x] # End /\ pos[next'[x]] <= pos[y]
                     /\ pos[x] = pos[y] => x = y
    <3>1. \A y \in on[h] : y # a => pos[y] # pos[a] /\ pos[y] \in Int /\ pos[a] \in Int
      BY <1>2, <1>4 DEF Sorted
    <3>2. first'[h] # End /\ pos[first'[h]] <= pos[x]
      BY <1>2, <1>3, <2>1, <3>1, SMT DEF Sorted
    <3>3. next'[x] # End => pos[x] < pos[next'[x]]
      BY <1>2, <1>4, <1>5, <1>6, <2>1, SMT
    <3>4. \A y \in on[h] : y # a /\ pos[x] < pos[y] => next'[x] # End /\ pos[next'[x]] <= pos[y]
      BY <1>2, <1>5, <2>1, <3>1, SMT DEF Sorted
    <3>5. QED  BY <1>2, <3>2, <3>3, <3>4 DEF Sorted
  <2>2. QED  BY <1>3, <2>1 DEF Sorted
<1>9. ASSUME NEW g \in Heads, g # h PROVE Linked(g)' /\ Sorted(g, pos)'
  <2>1. /\ Linked(g) /\ Sorted(g, pos) /\ on[g] \subseteq Addr
        /\ \A x \in on[g] : x \notin on[h]
    BY <1>1, <1>2, <1>9 DEF ListInv
  <2>2. \A x \in on[g] : next'[x] = next[x]  BY <1>3, <2>1
  <2>3. QED  BY <1>3, <1>9, <2>1, <2>2, OtherList
<1>10. \A f, g \in Heads : f # g => on'[f] \intersect on'[g] = {}
  BY <1>3 DEF ListInv
<1>11. \A g \in Heads : Linked(g)' /\ Sorted(g, pos)'  BY <1>7, <1>8, <1>9
<1>12. ListTypes'  BY DelLinks
<1>13. QED  BY <1>10, <1>11, <1>12 DEF ListInv

LEMMA Replaced ==
  ASSUME ListInv, NEW h \in Heads, NEW a \in on[h], NEW c \in Addr,
         \A g \in Heads : c \notin on[g], ReplaceRcu(h, a, c)
  PROVE  ListInv'
<1>1. PICK pos \in Positions : \A g \in Heads : Sorted(g, pos)  BY DEF ListInv
<1>2. /\ first \in [Heads -> Addr \union {End}] /\ on \in [Heads -> SUBSET Addr]
      /\ Linked(h) /\ Sorted(h, pos) /\ a \in Addr /\ on[h] \subseteq Addr
  BY <1>1 DEF ListInv, ListTypes
<1>3. /\ on'[h] = (on[h] \ {a}) \union {c}
      /\ first'[h] = IF first[h] = a THEN c ELSE first[h]
      /\ \A x \in Addr : next'[x] = IF x = c THEN next[a]
                                    ELSE IF x \in on[h] /\ next[x] = a THEN c ELSE next[x]
      /\ \A g \in Heads : g # h => first'[g] = first[g] /\ on'[g] = on[g]
  BY <1>2, ReplaceLinks, SMT
<1>4. \A x \in Addr : pos[x] \in Int  BY DEF Positions
<1>5. /\ \A x \in on[h] : /\ next[x] # End => next[x] \in on[h] /\ pos[x] < pos[next[x]]
                          /\ next'[x] = IF next[x] = a THEN c ELSE next[x]
      /\ next'[c] = next[a]
  BY <1>2, <1>3, SMT DEF Linked, Sorted
<1>6. End \notin on[h] /\ next[a] # a /\ c # a /\ c # End /\ c \notin on[h]
  BY <1>2, <1>4, <1>5, EndIsNoNode, SMT
<1>7. PICK q \in Positions : q[c] = pos[a] /\ \A x \in Addr : x # c => q[x] = pos[x]
  <2>1. /\ [pos EXCEPT ![c] = pos[a]] \in Positions /\ [pos EXCEPT ![c] = pos[a]][c] = pos[a]
        /\ \A x \in Addr : x # c => [pos EXCEPT ![c] = pos[a]][x] = pos[x]
    BY <1>2 DEF Positions
  <2>2. QED  BY <2>1
<1>8. Linked(h)'
  <2>1. first'[h] \in on'[h] \union {End}  BY <1>2, <1>3, <1>6 DEF Linked
  <2>2. \A x \in on'[h] : next'[x] \in on'[h] \union {End} /\ first'[h] # next'[x]
    <3>1. next'[c] \in on'[h] \union {End} /\ first'[h] # next'[c]
      BY <1>2, <1>3, <1>5, <1>6, SMT DEF Linked
    <3>2. \A x \in on[h] : x # a => next'[x] \in on'[h] \union {End} /\ first'[h] # next'[x]
      BY <1>2, <1>3, <1>5, <1>6, SMT DEF Linked
    <3>3. QED  BY <1>3, <3>1, <3>2
  <2>3. ASSUME NEW y \in on'[h] \union {End}
        PROVE  y = first'[h] \/ \E x \in on'[h] : next'[x] = y
    <3>1. CASE y = c
      <4>1. a = first[h] \/ \E x \in on[h] : next[x] = a  BY <1>2 DEF Linked
      <4>2. QED  BY <1>3, <1>5, <1>6, <3>1, <4>1
    <3>2. CASE y # c
      <4>1. y \in on[h] \union {End} /\ y # a  BY <1>2, <1>3, <3>2, EndIsNoNode
      <4>2. y = first[h] \/ \E x \in on[h] : next[x] = y  BY <1>2, <4>1 DEF Linked
      <4>3. ASSUME NEW x \in on[h], next[x] = y PROVE \E z \in on'[h] : next'[z] = y
        BY <1>3, <1>5, <4>1, <4>3
      <4>4. QED  BY <1>3, <4>1, <4>2, <4>3
    <3>3. QED  BY <3>1, <3>2
  <2>4. \A x, y \in on'[h] : next'[x] = next'[y] => x = y
    <3>1. \A x, y \in on[h] : x # a /\ y # a /\ next'[x] = next'[y] => x = y
      BY <1>2, <1>5, <1>6, SMT DEF Linked
    <3>2. \A x \in on[h] : x # a => next'[x] # next'[c]
      BY <1>2, <1>5, <1>6, SMT DEF Linked
    <3>3. QED  BY <1>3, <3>1, <3>2
  <2>5. QED  BY <2>1, <2>2, <2>3, <2>4 DEF Linked
<1>9. Sorted(h, q)'
  <2>1. \A x \in on[h] : q[x] = pos[x] /\ pos[x] \in Int  BY <1>2, <1>4, <1>6, <1>7
  <2>2. first[h] # End => first[h] \in on[h]  BY <1>2 DEF Linked
  <2>3. \A x \in on[h] : first'[h] # End /\ q[first'[h]] <= pos[x]
    BY <1>2, <1>3, <1>6, <1>7, <2>1, <2>2, SMT DEF Sorted
  <2>4. ASSUME NEW x \in on[h], NEW m, m = IF next[x] = a THEN c ELSE next[x]
        PROVE  /\ m # End => pos[x] < q[m]
               /\ \A y \in on[h] : pos[x] < pos[y] => m # End /\ q[m] <= pos[y]
    <3>1. CASE next[x] = a  BY <1>2, <1>5, <1>6, <1>7, <2>1, <2>4, <3>1 DEF Sorted
    <3>2. CASE next[x] # a  BY <1>2, <1>5, <1>6, <1>7, <2>1, <2>4, <3>2 DEF Sorted
    <3>3. QED  BY <3>1, <3>2
  <2>5. \A x \in on[h] : x # a =>
          /\ next'[x] # End => pos[x] < q[next'[x]]
          /\ \A y \in on[h] : pos[x] < pos[y] => next'[x] # End /\ q[next'[x]] <= pos[y]
    BY <1>5, <2>4
  <2>6. /\ next'[c] # End => pos[a] < q[next'[c]]
        /\ \A y \in on[h] : pos[a] < pos[y] => next'[c] # End /\ q[next'[c]] <= pos[y]
    BY <1>5, <1>6, <2>4
  <2>7. \A x, y \in on[h] : pos[x] = pos[y] => x = y  BY <1>2 DEF Sorted
  <2>8. ASSUME NEW x \in on'[h]
        PROVE  /\ first'[h] # End /\ q[first'[h]] <= q[x]
               /\ next'[x] # End => q[x] < q[next'[x]]
               /\ \A y \in on'[h] : /\ q[x] < q[y] => next'[x] # End /\ q[next'[x]] <= q[y]
                                    /\ q[x] = q[y] => x = y
    <3>1. CASE x = c
      <4>1. first'[h] # End /\ q[first'[h]] <= q[c] /\ (next'[c] # End => q[c] < q[next'[c]])
        BY <1>7, <2>3, <2>6
      <4>2. \A y \in on[h] : y # a => /\ q[c] < q[y] => next'[c] # End /\ q[next'[c]] <= q[y]
                                      /\ q[c] # q[y]
        BY <1>7, <2>1, <2>6, <2>7
      <4>3. ~ (q[c] < q[c])  BY <1>2, <1>4, <1>7, SMT
      <4>4. QED  BY <1>3, <3>1, <4>1, <4>2, <4>3
    <3>2. CASE x # c
      <4>1. x \in on[h] /\ x # a /\ q[x] = pos[x]  BY <1>3, <2>1, <3>2
      <4>2. first'[h] # End /\ q[first'[h]] <= q[x] /\ (next'[x] # End => q[x] < q[next'[x]])
        BY <2>3, <2>5, <4>1
      <4>3. \A y \in on[h] : y # a => /\ q[x] < q[y] => next'[x] # End /\ q[next'[x]] <= q[y]
                                      /\ q[x] = q[y] => x = y
        BY <2>1, <2>5, <2>7, <4>1
      <4>4. q[x] < q[c] => next'[x] # End /\ q[next'[x]] <= q[c]
        BY <1>7, <2>5, <4>1
      <4>5. q[x] # q[c]  BY <1>7, <2>7, <4>1
      <4>6. QED  BY <1>3, <4>2, <4>3, <4>4, <4>5
    <3>3. QED  BY <3>1, <3>2
  <2>9. QED  BY <2>8 DEF Sorted
<1>10. ASSUME NEW g \in Heads, g # h PROVE Linked(g)' /\ Sorted(g, q)'
  <2>1. /\ Linked(g) /\ Sorted(g, pos) /\ on[g] \subseteq Addr
        /\ \A x \in on[g] : x \notin on[h] /\ x # c
    BY <1>1, <1>2, <1>10 DEF ListInv
  <2>2. \A x \in on[g] : next'[x] = next[x] /\ q[x] = pos[x]  BY <1>3, <1>7, <2>1
  <2>3. QED  BY <1>3, <1>10, <2>1, <2>2, OtherList
<1>11. \A f, g \in Heads : f # g => on'[f] \intersect on'[g] = {}
  BY <1>3, SMT DEF ListInv
<1>12. \A g \in Heads : Linked(g)' /\ Sorted(g, q)'  BY <1>8, <1>9, <1>10
<1>13. ListTypes'  BY ReplaceLinks
<1>14. QED  BY <1>11, <1>12, <1>13 DEF ListInv

-----------------------------------------------------------------------------
MapTypes ==
    /\ alloc \subseteq Addr /\ retired \subseteq Addr /\ inside \subseteq {Reader}
    /\ gp \in [Addr -> SUBSET {Reader}]
    /\ key \in [Addr -> Keys] /\ value \in [Addr -> Nat]
    /\ wpc \in {"new", "fill", "update", "remove", "exited"}
    /\ wi \in Keys /\ step \in Nat \ {0} /\ old_n \in Addr \union {End}
    /\ task_init_val \in {0, 1} /\ fails \in 0 .. MaxFail
    /\ rpc \in {"new", "wait", "lock", "walk", "exited"}
    /\ ri \in Keys /\ sum \in {0, 1} /\ n \in Addr \union {End}
    /\ mod \in {"loaded", "stop_w", "stop_r", "unloaded", "oops"}

OnList(a) == \E h \in Heads : a \in on[h]
Holds(k) == \E a \in Addr : OnList(a) /\ key[a] = k

\* Where the allocated nodes are.
NodeInv ==
    /\ \A a \in Addr : a \in alloc <=> OnList(a) \/ a \in retired \/ a = old_n
    /\ \A a \in Addr : OnList(a) => a \notin retired /\ a # old_n
    /\ old_n \notin retired
    /\ \A h \in Heads : \A a \in on[h] :
         HashOf[key[a]] = h /\ \A c \in on[h] : key[c] = key[a] => c = a
    /\ \A a \in Addr : key[a] > 0 => value[a] > 0

\* The nodes that are not freed while the reader is where it is, and where their links go.
Protected(a) == OnList(a) \/ a = old_n \/ (a \in retired /\ Reader \in gp[a])

GraceInv ==
    /\ Reader \in inside <=> rpc = "walk"
    /\ \A a \in Addr : gp[a] \subseteq inside
    /\ n # End => rpc = "walk"
    /\ rpc \notin {"lock", "walk"} => ri = 0 /\ sum = 0

\* The writer has removed key j.
Removed(j) == wpc = "exited" \/ (wpc = "remove" /\ (j < wi \/ (j = wi /\ old_n # End)))

\* How far the writer is.
WriterInv ==
    /\ wpc \in {"new", "fill"} => task_init_val = 0
    /\ wpc = "new" => wi = 0
    /\ wpc \notin {"update", "remove"} => old_n = End
    /\ wpc \in {"update", "remove"} => task_init_val = 1
    /\ rpc \in {"lock", "walk"} => task_init_val = 1
    /\ mod \in {"stop_r", "unloaded", "oops"} => wpc = "exited"
    /\ \A k \in Keys : Holds(k) =>
         wpc # "new" /\ ~Removed(k) /\ (wpc = "fill" => k < wi)
    /\ wpc = "fill" => wi - 1 <= fails \/ \E j \in 1 .. wi - 1 : Holds(j)

LEMMA Sizes ==
  /\ Heads = Keys /\ HashOf \in [Keys -> Heads] /\ 0 \in Keys /\ Keys \subseteq Nat
  /\ OP_COUNT \in Nat \ {0} /\ MaxFail \in Nat /\ limit \in Nat \ {0} /\ Missing \notin Nat
  BY RcuCmapAssumption, SMT DEF Keys, Missing

LEMMA KeysBelow == \A k \in Nat : k \in Keys <=> k < OP_COUNT
  BY RcuCmapAssumption, SMT DEF Keys

LEMMA FreshIsFree ==
  ASSUME Addr \ alloc # {}
  PROVE  Fresh \in Addr \ alloc
  BY DEF Fresh

LEMMA WhatHolds ==
  ASSUME ListTypes, MapTypes, NodeInv, NEW k \in Keys
  PROVE  /\ NodesOf(k) = {a \in Addr : OnList(a) /\ key[a] = k}
         /\ NodesOf(k) # {} <=> Holds(k)
<1>1. \A h \in Heads : on[h] \subseteq Addr  BY DEF ListTypes
<1>2. HashOf[k] \in Heads  BY Sizes
<1>3. \A a : a \in NodesOf(k) <=> a \in Addr /\ OnList(a) /\ key[a] = k
  BY <1>1, <1>2, ZenonT(30) DEF NodesOf, OnList, NodeInv
<1>4. QED  BY <1>3 DEF Holds

\* The steps of the writer that change a list.
LEMMA UpdateShape ==
  ASSUME ListTypes, MapTypes, NodeInv, Update
  PROVE  \E c \in Addr \ alloc : \E v \in Nat :
           /\ alloc' = alloc \union {c} /\ (wi > 0 => v > 0)
           /\ key' = [key EXCEPT ![c] = wi] /\ value' = [value EXCEPT ![c] = v]
           /\ seen' = IF Reader \in inside /\ ri = wi THEN seen \union {v} ELSE seen
           /\ \/ /\ ~Holds(wi) /\ AddRcu(HashOf[wi], c) /\ Advance /\ old_n' = End
              \/ \E a \in on[HashOf[wi]] :
                    /\ key[a] = wi /\ ReplaceRcu(HashOf[wi], a, c) /\ old_n' = a
                    /\ UNCHANGED <<wpc, wi, step, task_init_val>>
<1>1. Fresh \in Addr \ alloc  BY FreshIsFree DEF Update
<1>2. PICK v \in Nat : v = (IF wpc = "fill" THEN wi ELSE wi * step) /\ (wi > 0 => v > 0)
  <2>1. wi \in Nat /\ step \in Nat /\ step > 0  BY Sizes, SMT DEF MapTypes
  <2>2. wi * step \in Nat /\ (wi > 0 => wi * step > 0)
    <3>1. \A x, y \in Nat : x * y \in Nat /\ (x > 0 /\ y > 0 => x * y > 0)
      BY SMT
    <3>2. QED  BY <2>1, <3>1
  <2>3. QED  BY <2>1, <2>2
<1>3. wi \in Keys  BY DEF MapTypes
<1>4. /\ alloc' = alloc \union {Fresh}
      /\ key' = [key EXCEPT ![Fresh] = wi] /\ value' = [value EXCEPT ![Fresh] = v]
      /\ seen' = IF Reader \in inside /\ ri = wi THEN seen \union {v} ELSE seen
  BY <1>2 DEF Update, Witness
<1>5. CASE NodesOf(wi) = {}
  <2>1. AddRcu(HashOf[wi], Fresh) /\ Advance /\ old_n' = End  BY <1>5 DEF Update
  <2>2. ~Holds(wi)  BY <1>3, <1>5, WhatHolds
  <2>3. QED  BY <1>1, <1>2, <1>4, <2>1, <2>2
<1>6. CASE NodesOf(wi) # {}
  <2>1. PICK a \in NodesOf(wi) : /\ ReplaceRcu(HashOf[wi], a, Fresh) /\ old_n' = a
                                 /\ UNCHANGED <<wpc, wi, step, task_init_val>>
    BY <1>6 DEF Update, LinkReplacement
  <2>2. a \in on[HashOf[wi]] /\ key[a] = wi  BY DEF NodesOf
  <2>3. QED  BY <1>1, <1>2, <1>4, <2>1, <2>2
<1>7. QED  BY <1>5, <1>6

LEMMA RemoveShape ==
  ASSUME ListTypes, MapTypes, NodeInv, Remove
  PROVE  \/ ~Holds(wi) /\ Advance /\ UNCHANGED <<first, next, on, old_n, seen>>
         \/ \E a \in on[HashOf[wi]] :
              /\ key[a] = wi /\ DelRcu(HashOf[wi], a) /\ old_n' = a
              /\ seen' = IF Reader \in inside /\ ri = wi THEN seen \union {Missing} ELSE seen
              /\ UNCHANGED <<wpc, wi, step, task_init_val>>
<1>1. wi \in Keys  BY DEF MapTypes
<1>2. CASE NodesOf(wi) = {}
  <2>1. ~Holds(wi)  BY <1>1, <1>2, WhatHolds
  <2>2. QED  BY <1>2, <2>1 DEF Remove
<1>3. CASE NodesOf(wi) # {}
  <2>1. PICK a \in NodesOf(wi) :
          /\ DelRcu(HashOf[wi], a) /\ old_n' = a
          /\ seen' = IF Reader \in inside /\ ri = wi THEN seen \union {Missing} ELSE seen
          /\ UNCHANGED <<wpc, wi, step, task_init_val>>
    BY <1>3 DEF Remove, Witness
  <2>2. a \in on[HashOf[wi]] /\ key[a] = wi  BY DEF NodesOf
  <2>3. QED  BY <2>1, <2>2
<1>4. QED  BY <1>2, <1>3

\* Which nodes are on lists after each list operation.
LEMMA AddedOn ==
  ASSUME ListInv, NEW h \in Heads, NEW c \in Addr, AddRcu(h, c)
  PROVE  /\ \A g \in Heads : on'[g] = IF g = h THEN on[h] \union {c} ELSE on[g]
         /\ \A x : OnList(x)' <=> OnList(x) \/ x = c
<1>1. \A g \in Heads : on'[g] = IF g = h THEN on[h] \union {c} ELSE on[g]
  BY DEF ListInv, ListTypes, AddRcu
<1>2. QED  BY <1>1 DEF OnList

LEMMA DeletedOn ==
  ASSUME ListInv, NEW h \in Heads, NEW a \in on[h], DelRcu(h, a)
  PROVE  /\ \A g \in Heads : on'[g] = IF g = h THEN on[h] \ {a} ELSE on[g]
         /\ \A x : OnList(x)' <=> OnList(x) /\ x # a
<1>1. \A g \in Heads : on'[g] = IF g = h THEN on[h] \ {a} ELSE on[g]
  BY DEF ListInv, ListTypes, DelRcu
<1>2. \A g \in Heads : g # h => a \notin on[g]  BY DEF ListInv
<1>3. QED  BY <1>1, <1>2 DEF OnList

\* Node c has taken the place of node a.
Swapped(h, a, c) ==
    /\ \A g \in Heads : on'[g] = IF g = h THEN (on[h] \ {a}) \union {c} ELSE on[g]
    /\ \A x : OnList(x)' <=> (OnList(x) /\ x # a) \/ x = c

LEMMA ReplacedOn ==
  ASSUME ListInv, NEW h \in Heads, NEW a \in on[h], NEW c \in Addr, c \notin on[h],
         ReplaceRcu(h, a, c)
  PROVE  Swapped(h, a, c)
<1>1. \A g \in Heads : on'[g] = IF g = h THEN (on[h] \ {a}) \union {c} ELSE on[g]
  BY DEF ListInv, ListTypes, ReplaceRcu
<1>2. \A g \in Heads : g # h => a \notin on[g]  BY DEF ListInv
<1>3. QED  BY <1>1, <1>2 DEF OnList, Swapped

\* A step that leaves the lists as they are.
LEMMA ListUntouched ==
  ASSUME ListInv, on' = on, first' = first, next' \in [Addr -> Addr \union {End}],
         \A x \in Addr : OnList(x) => next'[x] = next[x]
  PROVE  ListInv'
<1>1. PICK pos \in Positions : \A g \in Heads : Sorted(g, pos)  BY DEF ListInv
<1>2. ASSUME NEW g \in Heads PROVE Linked(g)' /\ Sorted(g, pos)'
  <2>1. Linked(g) /\ Sorted(g, pos) /\ on[g] \subseteq Addr  BY <1>1 DEF ListInv, ListTypes
  <2>2. \A x \in on[g] : next'[x] = next[x]  BY <2>1 DEF OnList
  <2>3. QED  BY <2>1, <2>2, OtherList
<1>3. ListTypes'  BY DEF ListInv, ListTypes
<1>4. QED  BY <1>2, <1>3 DEF ListInv

\* The nodes that change hands: c is new, a is unlinked.  A fresh node is on no list.
LEMMA FreeIsNowhere ==
  ASSUME NodeInv, ListInv, MapTypes, NEW c \in Addr \ alloc
  PROVE  ~OnList(c) /\ c \notin retired /\ c # old_n /\ (\A g \in Heads : c \notin on[g])
  BY DEF NodeInv, OnList

\* The steps that change neither the lists nor the fields of the nodes.
Elsewhere ==
    \/ UpdateFails \/ CallRcuOld \/ StartWriter
    \/ StartReader \/ Ready \/ BeginRead \/ Walk \/ EndRead \/ Rmmod \/ StopReader
    \/ UNCHANGED vars

LEMMA ElsewhereKeeps ==
  ASSUME Elsewhere
  PROVE  UNCHANGED <<first, next, on, key, value>>
  BY DEF Elsewhere, UpdateFails, CallRcuOld, StartWriter, StartReader, Ready,
         BeginRead, Walk, EndRead, Rmmod, StopReader, vars, nodes, rcuVars

LEMMA Steps ==
  ASSUME [Next]_vars
  PROVE  Update \/ Remove \/ Delete \/ Callbacks \/ Elsewhere
  BY DEF Next, Write, Read, Exit, Elsewhere, StillWaiting

\* What each step does to the lists.
LEMMA ListStep ==
  ASSUME ListInv, MapTypes, NodeInv, [Next]_vars
  PROVE  ListInv'
<1>1. CASE Update
  <2>1. PICK c \in Addr \ alloc :
           \/ AddRcu(HashOf[wi], c)
           \/ \E a \in on[HashOf[wi]] : ReplaceRcu(HashOf[wi], a, c)
    BY <1>1, UpdateShape DEF ListInv
  <2>2. HashOf[wi] \in Heads /\ \A g \in Heads : c \notin on[g]
    BY Sizes, FreeIsNowhere DEF MapTypes
  <2>3. QED  BY <2>1, <2>2, Added, Replaced
<1>2. CASE Remove
  <2>1. \/ UNCHANGED <<first, next, on>>
        \/ \E a \in on[HashOf[wi]] : DelRcu(HashOf[wi], a)
    BY <1>2, RemoveShape DEF ListInv
  <2>2. HashOf[wi] \in Heads  BY Sizes DEF MapTypes
  <2>3. CASE UNCHANGED <<first, next, on>>
    BY <2>3, ListUntouched DEF ListInv, ListTypes
  <2>4. QED  BY <2>1, <2>2, <2>3, Deleted
<1>3. CASE Delete
  <2>1. /\ first' \in [Heads -> Addr \union {End}] /\ next' = next
        /\ on' \in [Heads -> SUBSET Addr]
        /\ \A h \in Heads : first'[h] = End /\ on'[h] = {}
    BY <1>3 DEF Delete
  <2>2. PICK pos \in Positions : \A g \in Heads : Sorted(g, pos)  BY DEF ListInv
  <2>3. \A h \in Heads : Linked(h)' /\ Sorted(h, pos)'  BY <2>1 DEF Linked, Sorted
  <2>4. ListTypes'  BY <2>1 DEF ListInv, ListTypes
  <2>5. QED  BY <2>1, <2>3, <2>4 DEF ListInv
<1>4. CASE Callbacks
  <2>1. PICK a \in Addr : Callback(a)  BY <1>4 DEF Callbacks
  <2>2. a \in retired /\ next' = [next EXCEPT ![a] = End] /\ first' = first /\ on' = on
    BY <2>1 DEF Callback, Reclaim
  <2>3. ~OnList(a)  BY <2>2 DEF NodeInv
  <2>4. next \in [Addr -> Addr \union {End}]  BY DEF ListInv, ListTypes
  <2>5. QED  BY <2>2, <2>3, <2>4, ListUntouched
<1>5. CASE Elsewhere
  BY <1>5, ElsewhereKeeps, ListUntouched DEF ListInv, ListTypes
<1>6. QED  BY <1>1, <1>2, <1>3, <1>4, <1>5, Steps

\* The writer's loops.
LEMMA AdvanceCases ==
  ASSUME MapTypes, Advance, wpc \in {"fill", "update", "remove"}
  PROVE  \/ wi + 1 < OP_COUNT /\ wi' = wi + 1 /\ UNCHANGED <<wpc, step, task_init_val>>
         \/ /\ wi + 1 = OP_COUNT /\ wi' = 0
            /\ \/ wpc = "fill" /\ wpc' \in {"update", "remove"} /\ task_init_val' = 1 /\ step' = step
               \/ /\ wpc = "update" /\ wpc' \in {"update", "remove"} /\ step' = step + 1
                  /\ task_init_val' = task_init_val
               \/ wpc = "remove" /\ wpc' = "exited" /\ UNCHANGED <<step, task_init_val>>
<1>1. wi \in Keys  BY DEF MapTypes
<1>2. CASE wi + 1 < OP_COUNT  BY <1>2 DEF Advance
<1>3. CASE ~(wi + 1 < OP_COUNT)
  <2>1. wi + 1 = OP_COUNT  BY <1>1, <1>3, Sizes, SMT DEF Keys
  <2>2. /\ wi' = 0
        /\ CASE wpc = "fill" ->
                   /\ wpc' = IF step < limit THEN "update" ELSE "remove"
                   /\ task_init_val' = 1
                   /\ UNCHANGED step
              [] wpc = "update" ->
                   /\ step' = step + 1
                   /\ wpc' = IF step + 1 < limit THEN "update" ELSE "remove"
                   /\ UNCHANGED task_init_val
              [] wpc = "remove" ->
                   /\ wpc' = "exited"
                   /\ UNCHANGED <<step, task_init_val>>
    BY <1>3 DEF Advance
  <2>3. CASE wpc = "fill"  BY <2>1, <2>2, <2>3
  <2>4. CASE wpc = "update"  BY <2>1, <2>2, <2>4
  <2>5. CASE wpc = "remove"  BY <2>1, <2>2, <2>5
  <2>6. QED  BY <2>3, <2>4, <2>5
<1>4. QED  BY <1>2, <1>3

WriterTypes ==
    /\ wpc \in {"new", "fill", "update", "remove", "exited"}
    /\ wi \in Keys /\ step \in Nat \ {0} /\ task_init_val \in {0, 1}

LEMMA AdvanceTypes ==
  ASSUME MapTypes, \/ Advance /\ wpc \in {"fill", "update", "remove"}
                   \/ UNCHANGED <<wpc, wi, step, task_init_val>>
  PROVE  WriterTypes'
<1>1. WriterTypes  BY DEF MapTypes, WriterTypes
<1>2. CASE UNCHANGED <<wpc, wi, step, task_init_val>>  BY <1>1, <1>2 DEF WriterTypes
<1>3. CASE Advance /\ wpc \in {"fill", "update", "remove"}
  <2>1. wi' \in Keys /\ step' \in Nat \ {0}
    <3>1. /\ \/ wi + 1 < OP_COUNT /\ wi' = wi + 1
             \/ wi' = 0
          /\ step' \in {step, step + 1}
      BY <1>3, AdvanceCases
    <3>2. wi \in Nat /\ step \in Nat \ {0}  BY <1>1, Sizes DEF WriterTypes
    <3>3. wi' \in Nat /\ ((wi + 1 < OP_COUNT /\ wi' = wi + 1) \/ wi' = 0)  BY <3>1, <3>2, SMT
    <3>4. wi' \in Keys  BY <3>3, KeysBelow, Sizes
    <3>5. QED  BY <3>1, <3>2, <3>4, SMT
  <2>2. wpc' \in {"new", "fill", "update", "remove", "exited"} /\ task_init_val' \in {0, 1}
    BY <1>1, <1>3, AdvanceCases DEF WriterTypes
  <2>3. QED  BY <2>1, <2>2 DEF WriterTypes
<1>4. QED  BY <1>2, <1>3

NodeTypes ==
    /\ alloc \subseteq Addr /\ retired \subseteq Addr /\ inside \subseteq {Reader}
    /\ gp \in [Addr -> SUBSET {Reader}]
    /\ key \in [Addr -> Keys] /\ value \in [Addr -> Nat]
    /\ old_n \in Addr \union {End} /\ fails \in 0 .. MaxFail

ReaderTypes ==
    /\ rpc \in {"new", "wait", "lock", "walk", "exited"}
    /\ ri \in Keys /\ sum \in {0, 1} /\ n \in Addr \union {End}
    /\ mod \in {"loaded", "stop_w", "stop_r", "unloaded", "oops"}

LEMMA TypesStep ==
  ASSUME ListInv, MapTypes, NodeInv, WriterInv, [Next]_vars
  PROVE  MapTypes'
<1> USE Sizes
<1>1. WriterTypes /\ NodeTypes /\ ReaderTypes /\ wi \in Keys /\ HashOf[wi] \in Heads
  BY DEF MapTypes, WriterTypes, NodeTypes, ReaderTypes
<1>2. /\ on[HashOf[wi]] \subseteq Addr /\ next \in [Addr -> Addr \union {End}]
      /\ first \in [Heads -> Addr \union {End}]
  BY <1>1 DEF ListInv, ListTypes
<1>3. CASE Update
  <2>1. PICK c \in Addr \ alloc, v \in Nat :
           /\ alloc' = alloc \union {c}
           /\ key' = [key EXCEPT ![c] = wi] /\ value' = [value EXCEPT ![c] = v]
           /\ \/ Advance /\ old_n' = End
              \/ \E a \in on[HashOf[wi]] :
                    old_n' = a /\ UNCHANGED <<wpc, wi, step, task_init_val>>
    BY <1>3, UpdateShape DEF ListInv
  <2>2. WriterTypes'  BY <1>3, <2>1, AdvanceTypes DEF Update
  <2>3. UNCHANGED <<inside, retired, gp, fails, rpc, ri, sum, n, mod>>  BY <1>3 DEF Update
  <2>4. NodeTypes'  BY <1>1, <1>2, <2>1, <2>3 DEF NodeTypes
  <2>5. ReaderTypes'  BY <1>1, <2>3 DEF ReaderTypes
  <2>6. QED  BY <2>2, <2>4, <2>5 DEF MapTypes, WriterTypes, NodeTypes, ReaderTypes
<1>4. CASE Remove
  <2>1. \/ Advance /\ old_n' = old_n
        \/ \E a \in on[HashOf[wi]] : old_n' = a /\ UNCHANGED <<wpc, wi, step, task_init_val>>
    BY <1>4, RemoveShape DEF ListInv
  <2>2. WriterTypes'  BY <1>4, <2>1, AdvanceTypes DEF Remove
  <2>3. UNCHANGED <<alloc, inside, retired, gp, key, value, fails, rpc, ri, sum, n, mod>>
    BY <1>4 DEF Remove
  <2>4. NodeTypes'  BY <1>1, <1>2, <2>1, <2>3 DEF NodeTypes
  <2>5. ReaderTypes'  BY <1>1, <2>3 DEF ReaderTypes
  <2>6. QED  BY <2>2, <2>4, <2>5 DEF MapTypes, WriterTypes, NodeTypes, ReaderTypes
<1>5. CASE CallRcuOld
  <2>1. wpc \in {"update", "remove"} /\ Advance  BY <1>5 DEF CallRcuOld, WriterInv
  <2>2. WriterTypes'  BY <2>1, AdvanceTypes
  <2>3. /\ old_n # End /\ old_n' = End /\ retired' = retired \union {old_n}
        /\ gp' = [gp EXCEPT ![old_n] = inside]
        /\ UNCHANGED <<alloc, inside, key, value, fails, rpc, ri, sum, n, mod>>
    BY <1>5 DEF CallRcuOld, CallRcu, Retire, reader
  <2>4. NodeTypes'  BY <1>1, <2>3 DEF NodeTypes
  <2>5. ReaderTypes'  BY <1>1, <2>3 DEF ReaderTypes
  <2>6. QED  BY <2>2, <2>4, <2>5, SMT DEF MapTypes, WriterTypes, NodeTypes, ReaderTypes
<1>6. CASE UpdateFails
  <2>1. WriterTypes'  BY <1>6, AdvanceTypes DEF UpdateFails
  <2>2. /\ fails < MaxFail /\ fails' = fails + 1
        /\ UNCHANGED <<alloc, inside, retired, gp, key, value, old_n, rpc, ri, sum, n, mod>>
    BY <1>6 DEF UpdateFails, nodes, rcuVars, reader
  <2>3. fails' \in 0 .. MaxFail  BY <1>1, <2>2, SMT DEF NodeTypes
  <2>4. NodeTypes'  BY <1>1, <2>2, <2>3 DEF NodeTypes
  <2>5. ReaderTypes'  BY <1>1, <2>2 DEF ReaderTypes
  <2>6. QED  BY <2>1, <2>4, <2>5, SMT DEF MapTypes, WriterTypes, NodeTypes, ReaderTypes
<1>7. CASE Callbacks
  <2>1. PICK a \in Addr : Callback(a)  BY <1>7 DEF Callbacks
  <2>2. NodeTypes'  BY <1>1, <2>1 DEF NodeTypes, Callback, Reclaim, writer
  <2>3. ReaderTypes'  BY <1>1, <2>1 DEF ReaderTypes, Callback, reader
  <2>4. WriterTypes'  BY <1>1, <2>1 DEF WriterTypes, Callback, writer
  <2>5. QED  BY <2>2, <2>3, <2>4 DEF MapTypes, WriterTypes, NodeTypes, ReaderTypes
<1>8. CASE StartWriter \/ StartReader \/ Ready \/ Rmmod \/ StopReader \/ UNCHANGED vars
  BY <1>8, SMT DEF MapTypes, StartWriter, StartReader, Ready, Rmmod, StopReader, vars,
     nodes, rcuVars, writer, reader
<1>9. CASE BeginRead \/ Walk
  <2>1. n' \in Addr \union {End}
    <3>1. HashOf[ri] \in Heads  BY <1>1 DEF ReaderTypes
    <3>2. CASE BeginRead  BY <1>2, <3>1, <3>2 DEF BeginRead
    <3>3. CASE Walk  BY <1>1, <1>2, <3>3 DEF Walk, ReaderTypes
    <3>4. QED  BY <1>9, <3>2, <3>3
  <2>2. inside' \subseteq {Reader}
    BY <1>1, <1>9 DEF BeginRead, Walk, ReadLock, nodes, rcuVars, NodeTypes
  <2>3. QED  BY <1>9, <2>1, <2>2, ZenonT(30) DEF MapTypes, BeginRead, Walk, nodes, rcuVars, writer
<1>10. CASE EndRead
  <2>1. ri' \in Keys /\ sum' \in {0, 1} /\ rpc' \in {"lock", "exited"}
    <3>1. ri \in Keys /\ sum \in {0, 1}  BY <1>1 DEF ReaderTypes
    <3>2. ri' \in Keys
      <4>1. (ri + 1 < OP_COUNT /\ ri' = ri + 1) \/ ri' = 0  BY <1>10 DEF EndRead
      <4>2. ri \in Nat /\ ri + 1 \in Nat  BY <3>1, SMT
      <4>3. QED  BY <4>1, <4>2, KeysBelow
    <3>3. sum' \in {0, 1}  BY <1>10, <3>1 DEF EndRead
    <3>4. rpc' \in {"lock", "exited"}  BY <1>10 DEF EndRead
    <3>5. QED  BY <3>2, <3>3, <3>4
  <2>2. inside' \subseteq {Reader} /\ gp' \in [Addr -> SUBSET {Reader}]
    BY <1>1, <1>10 DEF EndRead, ReadUnlock, NodeTypes
  <2>3. QED  BY <1>10, <2>1, <2>2 DEF MapTypes, EndRead, writer
<1>11. CASE Delete
  BY <1>11 DEF MapTypes, Delete, writer, reader
<1>12. QED
  BY <1>3, <1>4, <1>5, <1>6, <1>7, <1>8, <1>9, <1>10, <1>11, Steps DEF Elsewhere

\* The nodes under an update, a removal and a reclaim.
LEMMA NodesUpdated ==
  ASSUME ListInv, MapTypes, NodeInv, Update
  PROVE  NodeInv'
<1> DEFINE h == HashOf[wi]
<1>1. h \in Heads /\ wi \in Keys /\ old_n = End  BY Sizes DEF MapTypes, Update
<1>2. PICK c \in Addr \ alloc, v \in Nat :
         /\ alloc' = alloc \union {c} /\ (wi > 0 => v > 0)
         /\ key' = [key EXCEPT ![c] = wi] /\ value' = [value EXCEPT ![c] = v]
         /\ \/ /\ ~Holds(wi) /\ AddRcu(h, c) /\ old_n' = End
            \/ \E a \in on[h] : key[a] = wi /\ ReplaceRcu(h, a, c) /\ old_n' = a
  BY UpdateShape DEF ListInv
<1>3. /\ key'[c] = wi /\ value'[c] = v
      /\ \A x \in Addr : x # c => key'[x] = key[x] /\ value'[x] = value[x]
      /\ retired' = retired
  BY <1>2 DEF MapTypes, Update
<1>4. ~OnList(c) /\ c \notin retired /\ c # End /\ \A g \in Heads : c \notin on[g]
  BY FreeIsNowhere, EndIsNoNode
<1>5. \A g \in Heads : on[g] \subseteq Addr  BY DEF ListInv, ListTypes
<1>6. \A x \in Addr : key'[x] > 0 => value'[x] > 0
  <2>1. wi > 0 => v > 0  BY <1>2
  <2>2. \A x \in Addr : key[x] > 0 => value[x] > 0  BY DEF NodeInv
  <2>3. QED  BY <1>3, <2>1, <2>2
<1> HIDE DEF h
<1>7. CASE ~Holds(wi) /\ AddRcu(h, c) /\ old_n' = End
  <2>1. /\ \A g \in Heads : on'[g] = IF g = h THEN on[h] \union {c} ELSE on[g]
        /\ \A x : OnList(x)' <=> OnList(x) \/ x = c
    BY <1>1, <1>7, AddedOn
  <2>2. \A g \in Heads : \A x \in on[g] : key[x] # wi  BY <1>5, <1>7 DEF Holds, OnList
  <2>3. /\ \A x \in Addr : x \in alloc' <=> OnList(x)' \/ x \in retired' \/ x = old_n'
        /\ \A x \in Addr : OnList(x)' => x \notin retired' /\ x # old_n'
        /\ old_n' \notin retired'
    BY <1>1, <1>2, <1>3, <1>4, <1>7, <2>1, ZenonT(30) DEF NodeInv
  <2>4. ASSUME NEW g \in Heads, NEW x \in on'[g]
        PROVE  HashOf[key'[x]] = g /\ \A y \in on'[g] : key'[y] = key'[x] => y = x
    <3>1. CASE x = c
      <4>1. g = h  BY <1>4, <2>1, <3>1
      <4>2. \A y \in on'[g] : y # c => key'[y] # wi  BY <1>3, <1>5, <2>1, <2>2
      <4>3. QED  BY <1>3, <3>1, <4>1, <4>2 DEF h
    <3>2. CASE x # c
      <4>1. x \in on[g] /\ key'[x] = key[x] /\ key[x] # wi /\ x \in Addr
        BY <1>3, <1>5, <2>1, <2>2, <3>2
      <4>2. \A y \in on'[g] : key'[y] = key'[x] => y \in on[g] /\ key'[y] = key[y]
        BY <1>3, <1>5, <2>1, <4>1
      <4>3. QED  BY <4>1, <4>2, SMT DEF NodeInv
    <3>3. QED  BY <3>1, <3>2
  <2>5. QED  BY <1>6, <2>3, <2>4 DEF NodeInv
<1>8. ASSUME NEW a \in on[h], key[a] = wi, ReplaceRcu(h, a, c), old_n' = a
      PROVE  NodeInv'
  <2>1. /\ \A g \in Heads : on'[g] = IF g = h THEN (on[h] \ {a}) \union {c} ELSE on[g]
        /\ \A x : OnList(x)' <=> (OnList(x) /\ x # a) \/ x = c
    <3>1. c \in Addr /\ c \notin on[h]  BY <1>1, <1>4
    <3>2. a \in on[h] /\ ReplaceRcu(h, a, c)  BY <1>8
    <3>3. Swapped(h, a, c)  BY <1>1, <3>1, <3>2, ReplacedOn
    <3>4. QED  BY <3>3 DEF Swapped
  <2>2. OnList(a) /\ a \in Addr /\ a # c  BY <1>1, <1>4, <1>5 DEF OnList
  <2>3. /\ \A x \in Addr : x \in alloc' <=> OnList(x)' \/ x \in retired' \/ x = old_n'
        /\ \A x \in Addr : OnList(x)' => x \notin retired' /\ x # old_n'
        /\ old_n' \notin retired'
    <3>1. \A x \in Addr : /\ x \in alloc <=> OnList(x) \/ x \in retired
                          /\ OnList(x) => x \notin retired
      BY <1>1, EndIsNoNode DEF NodeInv
    <3>2. /\ \A x : x \in alloc' <=> x \in alloc \/ x = c
          /\ old_n' = a /\ retired' = retired
      BY <1>2, <1>3, <1>8
    <3>3. QED  BY <1>4, <2>1, <2>2, <3>1, <3>2
  <2>4. ASSUME NEW g \in Heads, NEW x \in on'[g]
        PROVE  HashOf[key'[x]] = g /\ \A y \in on'[g] : key'[y] = key'[x] => y = x
    <3>1. \A y \in on[h] : y # a => key[y] # wi  BY <1>1, <1>8 DEF NodeInv
    <3>2. CASE x = c
      <4>1. g = h  BY <1>4, <2>1, <3>2
      <4>2. \A y \in on'[g] : y # c => key'[y] # wi
        BY <1>1, <1>3, <1>5, <2>1, <3>1, <4>1, ZenonT(30)
      <4>3. QED  BY <1>3, <3>2, <4>1, <4>2 DEF h
    <3>3. CASE x # c
      <4>1. x \in on[g] /\ key'[x] = key[x] /\ (g = h => key[x] # wi) /\ x \in Addr
        BY <1>3, <1>5, <2>1, <3>1, <3>3, ZenonT(30)
      <4>2. \A y \in on'[g] : key'[y] = key'[x] => y \in on[g] /\ key'[y] = key[y]
        <5>1. \A y \in on'[g] : y # c => y \in on[g] /\ key'[y] = key[y]  BY <1>3, <1>5, <2>1, SMT
        <5>2. c \in on'[g] => key'[c] # key'[x]  BY <1>3, <1>4, <2>1, <4>1
        <5>3. QED  BY <5>1, <5>2
      <4>3. HashOf[key[x]] = g /\ \A y \in on[g] : key[y] = key[x] => y = x
        BY <4>1 DEF NodeInv
      <4>4. QED  BY <4>1, <4>2, <4>3
    <3>4. QED  BY <3>2, <3>3
  <2>5. QED  BY <1>6, <2>3, <2>4 DEF NodeInv
<1>9. QED  BY <1>2, <1>7, <1>8

LEMMA NodesStep ==
  ASSUME ListInv, MapTypes, NodeInv, GraceInv, [Next]_vars
  PROVE  NodeInv'
<1>1. CASE Update  BY <1>1, NodesUpdated
<1>2. CASE Remove
  <2>1. UNCHANGED <<alloc, retired, key, value>> /\ old_n = End /\ HashOf[wi] \in Heads
    BY <1>2, Sizes DEF Remove, MapTypes
  <2>2. CASE UNCHANGED <<on, old_n>>  BY <2>1, <2>2 DEF NodeInv, OnList
  <2>3. ASSUME NEW a \in on[HashOf[wi]], DelRcu(HashOf[wi], a), old_n' = a
        PROVE  NodeInv'
    <3>1. /\ \A g \in Heads : on'[g] \subseteq on[g]
          /\ \A x : OnList(x)' <=> OnList(x) /\ x # a
      BY <2>1, <2>3, DeletedOn, ZenonT(30)
    <3>2. OnList(a) /\ a \in Addr  BY <2>1 DEF OnList, ListInv, ListTypes
    <3>3. /\ \A x \in Addr : x \in alloc' <=> OnList(x)' \/ x \in retired' \/ x = old_n'
          /\ \A x \in Addr : OnList(x)' => x \notin retired' /\ x # old_n'
          /\ old_n' \notin retired'
      <4>1. \A x \in Addr : /\ x \in alloc <=> OnList(x) \/ x \in retired
                            /\ OnList(x) => x \notin retired
        BY <2>1, EndIsNoNode DEF NodeInv
      <4>2. /\ \A x : x \in alloc' <=> x \in alloc
            /\ old_n' = a /\ retired' = retired
        BY <2>1, <2>3
      <4>3. QED  BY <3>1, <3>2, <4>1, <4>2
    <3>4. QED  BY <2>1, <3>1, <3>3 DEF NodeInv
  <2>4. QED  BY <1>2, <2>2, <2>3, RemoveShape DEF ListInv
<1>3. CASE Delete
  <2>1. /\ \A x \in Addr : x \in alloc' <=> x \in alloc /\ ~OnList(x)
        /\ \A g \in Heads : on'[g] = {}
        /\ UNCHANGED <<retired, old_n, key, value>>
    BY <1>3 DEF Delete, OnList, writer
  <2>2. \A x : ~OnList(x)'  BY <2>1 DEF OnList
  <2>3. QED  BY <2>1, <2>2 DEF NodeInv
<1>4. CASE Callbacks
  <2>1. PICK a \in Addr : Callback(a)  BY <1>4 DEF Callbacks
  <2>2. /\ a \in retired /\ retired' = retired \ {a} /\ alloc' = alloc \ {a}
        /\ on' = on /\ old_n' = old_n
        /\ key' = [key EXCEPT ![a] = 0] /\ value' = [value EXCEPT ![a] = 0]
    BY <2>1 DEF Callback, Reclaim, writer
  <2>3. ~OnList(a) /\ a # old_n /\ \A x : OnList(x)' <=> OnList(x)
    BY <2>2 DEF NodeInv, OnList
  <2>4. key'[a] = 0 /\ \A x \in Addr : x # a => key'[x] = key[x] /\ value'[x] = value[x]
    BY <2>2 DEF MapTypes
  <2>5. \A g \in Heads : \A x \in on[g] : x \in Addr /\ x # a
    BY <2>3 DEF OnList, ListInv, ListTypes
  <2>6. QED  BY <2>2, <2>3, <2>4, <2>5, SMT DEF NodeInv
<1>5. CASE CallRcuOld
  <2>1. /\ old_n # End /\ old_n' = End /\ retired' = retired \union {old_n}
        /\ UNCHANGED <<alloc, key, value, on>>
    BY <1>5 DEF CallRcuOld, CallRcu, Retire
  <2>2. old_n \in Addr /\ End \notin retired' /\ End \notin Addr
    BY <2>1, EndIsNoNode DEF MapTypes
  <2>3. \A x : OnList(x)' <=> OnList(x)  BY <2>1 DEF OnList
  <2>4. QED  BY <2>1, <2>2, <2>3 DEF NodeInv
<1>6. CASE Elsewhere /\ ~CallRcuOld
  <2>1. UNCHANGED <<on, alloc, retired, old_n, key, value>>
    BY <1>6 DEF Elsewhere, UpdateFails, StartWriter, StartReader, Ready,
                BeginRead, Walk, EndRead, Rmmod, StopReader, vars, nodes, rcuVars, writer
  <2>2. QED  BY <2>1 DEF NodeInv, OnList
<1>7. QED  BY <1>1, <1>2, <1>3, <1>4, <1>5, <1>6, Steps

LEMMA GraceStep ==
  ASSUME MapTypes, GraceInv, NodeInv, [Next]_vars
  PROVE  GraceInv'
<1>1. CASE BeginRead
  BY <1>1 DEF BeginRead, ReadLock, GraceInv
<1>2. CASE EndRead
  <2>1. /\ inside' = inside \ {Reader} /\ gp' = [a \in Addr |-> gp[a] \ {Reader}]
        /\ n' = End /\ rpc' \in {"lock", "exited"}
    BY <1>2 DEF EndRead, ReadUnlock
  <2>2. rpc' = "exited" => ri' = 0 /\ sum' = 0  BY <1>2 DEF EndRead
  <2>3. QED  BY <2>1, <2>2 DEF GraceInv
<1>3. CASE CallRcuOld
  <2>1. old_n \in Addr /\ gp' = [gp EXCEPT ![old_n] = inside] /\ inside' = inside /\ reader' = reader
    BY <1>3 DEF CallRcuOld, CallRcu, Retire, MapTypes
  <2>2. \A a \in Addr : gp'[a] \subseteq inside  BY <2>1 DEF MapTypes, GraceInv
  <2>3. QED  BY <2>1, <2>2 DEF GraceInv, reader
<1>4. CASE Walk \/ StartReader \/ Ready
  BY <1>4 DEF Walk, StartReader, Ready, GraceInv, nodes, rcuVars
<1>5. CASE UNCHANGED <<inside, gp, rpc, ri, sum, n>>  BY <1>5 DEF GraceInv
<1>6. Update \/ Remove \/ Delete \/ UpdateFails \/ StartWriter \/ Rmmod \/ StopReader \/ UNCHANGED vars
        => UNCHANGED <<inside, gp, rpc, ri, sum, n>>
  BY DEF Update, Remove, Delete, UpdateFails, StartWriter, Rmmod, StopReader, vars,
     nodes,
         rcuVars, reader
<1>7. Callbacks => UNCHANGED <<inside, gp, rpc, ri, sum, n>>
  BY DEF Callbacks, Callback, reader
<1>8. QED  BY <1>1, <1>2, <1>3, <1>4, <1>5, <1>6, <1>7, Steps DEF Elsewhere

\* Which keys the map holds after each step.
LEMMA HoldsStep ==
  ASSUME ListInv, MapTypes, NodeInv, [Next]_vars
  PROVE  /\ Update => \A k \in Keys : Holds(k)' <=> Holds(k) \/ k = wi
         /\ Remove => \A k \in Keys : Holds(k)' <=> Holds(k) /\ k # wi
         /\ Delete => \A k \in Keys : ~Holds(k)'
         /\ Callbacks \/ Elsewhere => \A k \in Keys : Holds(k)' <=> Holds(k)
<1>1. HashOf[wi] \in Heads /\ wi \in Keys  BY Sizes DEF MapTypes
<1>2. \A g \in Heads : on[g] \subseteq Addr  BY DEF ListInv, ListTypes
<1>3. ASSUME Update, NEW k \in Keys PROVE Holds(k)' <=> Holds(k) \/ k = wi
  <2>1. PICK c \in Addr \ alloc :
           /\ key' = [key EXCEPT ![c] = wi]
           /\ \/ ~Holds(wi) /\ AddRcu(HashOf[wi], c)
              \/ \E a \in on[HashOf[wi]] : key[a] = wi /\ ReplaceRcu(HashOf[wi], a, c)
    BY <1>3, UpdateShape DEF ListInv
  <2>2. ~OnList(c) /\ c \notin on[HashOf[wi]] /\ c \in Addr  BY <1>1, FreeIsNowhere
  <2>3. key'[c] = wi /\ \A x \in Addr : x # c => key'[x] = key[x]  BY <2>1 DEF MapTypes
  <2>4. CASE AddRcu(HashOf[wi], c)
    <3>1. \A x : OnList(x)' <=> OnList(x) \/ x = c  BY <1>1, <2>4, AddedOn
    <3>2. QED  BY <2>2, <2>3, <3>1 DEF Holds
  <2>5. ASSUME NEW a \in on[HashOf[wi]], key[a] = wi, ReplaceRcu(HashOf[wi], a, c)
        PROVE  Holds(k)' <=> Holds(k) \/ k = wi
    <3>1. \A x : OnList(x)' <=> (OnList(x) /\ x # a) \/ x = c
      <4> DEFINE h == HashOf[wi]
      <4>1. h \in Heads /\ a \in on[h] /\ c \in Addr /\ c \notin on[h] /\ ReplaceRcu(h, a, c)
        BY <1>1, <2>2, <2>5
      <4> HIDE DEF h
      <4>2. Swapped(h, a, c)  BY <4>1, ReplacedOn
      <4>3. QED  BY <4>2 DEF Swapped
    <3>2. QED  BY <2>2, <2>3, <2>5, <3>1 DEF Holds
  <2>6. QED  BY <2>1, <2>4, <2>5
<1>4. ASSUME Remove, NEW k \in Keys PROVE Holds(k)' <=> Holds(k) /\ k # wi
  <2>1. key' = key  BY <1>4 DEF Remove
  <2>2. CASE ~Holds(wi) /\ on' = on  BY <2>1, <2>2 DEF Holds, OnList
  <2>3. ASSUME NEW a \in on[HashOf[wi]], key[a] = wi, DelRcu(HashOf[wi], a)
        PROVE  Holds(k)' <=> Holds(k) /\ k # wi
    <3>1. \A x : OnList(x)' <=> OnList(x) /\ x # a  BY <1>1, <2>3, DeletedOn
    <3>2. \A x \in Addr : OnList(x) /\ key[x] = wi => x = a
      BY <1>1, <1>2, <2>3, SMT DEF NodeInv, OnList
    <3>3. QED  BY <2>1, <2>3, <3>1, <3>2 DEF Holds
  <2>4. QED  BY <1>4, <2>2, <2>3, RemoveShape DEF ListInv
<1>5. ASSUME Delete, NEW k \in Keys PROVE ~Holds(k)'
  BY <1>5 DEF Delete, Holds, OnList
<1>6. ASSUME Callbacks, NEW k \in Keys PROVE Holds(k)' <=> Holds(k)
  <2>1. PICK a \in Addr : a \in retired /\ on' = on /\ key' = [key EXCEPT ![a] = 0]
    BY <1>6 DEF Callbacks, Callback, Reclaim
  <2>2. ~OnList(a)  BY <2>1 DEF NodeInv
  <2>3. \A x \in Addr : x # a => key'[x] = key[x]  BY <2>1 DEF MapTypes
  <2>4. \A x : OnList(x)' <=> OnList(x)  BY <2>1 DEF OnList
  <2>5. QED  BY <2>2, <2>3, <2>4 DEF Holds
<1>7. ASSUME Elsewhere, NEW k \in Keys PROVE Holds(k)' <=> Holds(k)
  BY <1>7, ElsewhereKeeps DEF Holds, OnList
<1>8. QED  BY <1>3, <1>4, <1>5, <1>6, <1>7

-----------------------------------------------------------------------------
\* rcucmap.c.  The kzallocs that fail leave at least one of the keys 1 .. OP_COUNT - 1:
\* the values of the others do not tell an empty map from one that holds key 0 only.
SomeKeyIsStored == MaxFail + 1 < OP_COUNT

\* The nodes of a section, a set that its walk does not leave: the ones on the bucket's
\* list when the section began and the ones that came onto it since.
Section(V) ==
    /\ on[HashOf[ri]] \subseteq V
    /\ n \in V \union {End}
    /\ \A x \in V : /\ Protected(x) /\ HashOf[key[x]] = HashOf[ri]
                    /\ next[x] \in V \union {End}
                    /\ key[x] = ri => value[x] \in seen

\* From every node of T the walk goes on in T until it meets the key.
Ahead(T) == n \in T /\ \A x \in T : key[x] = ri \/ next[x] \in T

WalkInv ==
    rpc = "walk" =>
      /\ ~Holds(ri) => Missing \in seen
      /\ \E V \in SUBSET Addr :
           Section(V) /\ (Missing \notin seen => \E T \in SUBSET V : Ahead(T))

\* Key j was stored before the reader began, so the reader's sum stays 0 only when the
\* keys it has read since j are gone too.
Stored(j) ==
    /\ Holds(j) \/ Removed(j)
    /\ rpc \in {"lock", "walk"} /\ sum = 0 /\ j < ri =>
         Removed(j) /\ \A m \in j + 1 .. ri - 1 : ~Holds(m)
    /\ rpc = "walk" /\ Missing \in seen =>
         /\ j = ri => Removed(j)
         /\ sum = 0 /\ j < ri => ~Holds(ri)

SumInv == task_init_val = 1 => \E j \in 1 .. OP_COUNT - 1 : Stored(j)

\* The reader ends only on an empty map.
DoneInv == rpc = "exited" => wpc \in {"remove", "exited"} /\ \A k \in Keys : ~Holds(k)

MapInv == ListInv /\ MapTypes /\ NodeInv /\ GraceInv /\ WalkInv /\ WriterInv

\* A section under steps that leave its nodes alone.
LEMMA SectionKept ==
  ASSUME NEW V \in SUBSET Addr, Section(V),
         on'[HashOf[ri]] \subseteq V, n' = n, ri' = ri, seen \subseteq seen',
         \A x \in V : /\ Protected(x)' /\ key'[x] = key[x] /\ value'[x] = value[x]
                      /\ next'[x] = next[x]
  PROVE  Section(V)' /\ \A T \in SUBSET V : Ahead(T) => Ahead(T)'
<1>1. Section(V)'  BY DEF Section
<1>2. \A T \in SUBSET V : Ahead(T) => Ahead(T)'  BY DEF Ahead
<1>3. QED  BY <1>1, <1>2

\* A walk that has just begun: the nodes up to the one with the key are ahead.
LEMMA WalkBegins ==
  ASSUME ListInv, MapTypes, NodeInv, BeginRead
  PROVE  WalkInv'
<1> DEFINE h == HashOf[ri]
<1>1. h \in Heads /\ ri \in Keys  BY Sizes DEF MapTypes
<1>2. PICK pos \in Positions : \A g \in Heads : Sorted(g, pos)  BY DEF ListInv
<1>3. /\ n' = first[h] /\ seen' = {Current(ri)} /\ ri' = ri
      /\ UNCHANGED <<first, next, on, retired, gp, key, value, old_n>>
  BY DEF BeginRead, writer
<1>4. on[h] \in SUBSET Addr /\ Linked(h) /\ Sorted(h, pos)
  BY <1>1, <1>2 DEF ListInv, ListTypes
<1>5. ~Holds(ri) => Missing \in seen'
  BY <1>1, <1>3, WhatHolds DEF Current, ListInv
<1>6. \A x \in on[h] : key[x] = ri => value[x] \in seen'
  <2>1. ASSUME NEW x \in on[h], key[x] = ri PROVE value[x] \in seen'
    <3>1. x \in NodesOf(ri)  BY <2>1 DEF NodesOf
    <3>2. \A y \in NodesOf(ri) : y = x  BY <1>1, <2>1, SMT DEF NodesOf, NodeInv
    <3>3. Current(ri) = value[x]  BY <3>1, <3>2 DEF Current
    <3>4. QED  BY <1>3, <3>3
  <2>2. QED  BY <2>1
<1>7. Section(on[h])'
  <2>1. \A x \in on[h] : Protected(x)'  BY <1>1, <1>3 DEF Protected, OnList
  <2>2. QED  BY <1>1, <1>3, <1>4, <1>6, <2>1 DEF Section, Linked, NodeInv
<1>8. ASSUME Missing \notin seen' PROVE \E T \in SUBSET on[h] : Ahead(T)'
  <2>1. PICK t \in on[h] : key[t] = ri
    <3>1. NodesOf(ri) # {}  BY <1>1, <1>3, <1>8 DEF Current
    <3>2. QED  BY <3>1 DEF NodesOf
  <2>2. PICK T \in SUBSET on[h] : \A x \in on[h] : x \in T <=> pos[x] <= pos[t]
    <3>1. {x \in on[h] : pos[x] <= pos[t]} \in SUBSET on[h]  OBVIOUS
    <3>2. QED  BY <3>1
  <2>3. first[h] \in T  BY <1>4, <2>1, <2>2 DEF Sorted, Linked
  <2>4. \A x \in T : key[x] = ri \/ next[x] \in T
    <3>1. ASSUME NEW x \in T, key[x] # ri PROVE next[x] \in T
      <4>1. x \in on[h] /\ pos[x] <= pos[t] /\ x # t  BY <2>1, <2>2, <3>1
      <4>2. pos[x] \in Int /\ pos[t] \in Int /\ pos[x] # pos[t]
        BY <1>4, <4>1 DEF Sorted, Positions
      <4>3. pos[x] < pos[t]  BY <4>1, <4>2, SMT
      <4>4. next[x] # End /\ pos[next[x]] <= pos[t]  BY <1>4, <4>1, <4>3 DEF Sorted
      <4>5. next[x] \in on[h]  BY <1>4, <4>1, <4>4 DEF Linked
      <4>6. QED  BY <2>2, <4>4, <4>5
    <3>2. QED  BY <3>1
  <2>5. Ahead(T)'  BY <1>3, <2>3, <2>4 DEF Ahead
  <2>6. QED  BY <2>5
<1>9. (~Holds(ri))' => Missing \in seen'  BY <1>3, <1>5 DEF Holds, OnList
<1>10. PICK V \in SUBSET Addr : V = on[h]  BY <1>4
<1>11. Section(V)'  BY <1>3, <1>7, <1>10
<1>12. QED  BY <1>8, <1>9, <1>10, <1>11 DEF WalkInv

\* A section under an update of its bucket or another one.
LEMMA WalkUnderUpdate ==
  ASSUME ListInv, MapTypes, NodeInv, GraceInv, WalkInv, Update, [Next]_vars, rpc = "walk"
  PROVE  WalkInv'
<1> DEFINE g == HashOf[wi]
           h == HashOf[ri]
<1>1. g \in Heads /\ h \in Heads /\ wi \in Keys /\ ri \in Keys /\ old_n = End /\ Reader \in inside
  BY Sizes DEF MapTypes, Update, GraceInv
<1>2. PICK c \in Addr \ alloc, v \in Nat :
         /\ key' = [key EXCEPT ![c] = wi] /\ value' = [value EXCEPT ![c] = v]
         /\ seen' = IF Reader \in inside /\ ri = wi THEN seen \union {v} ELSE seen
         /\ \/ AddRcu(g, c)
            \/ \E a \in on[g] : key[a] = wi /\ ReplaceRcu(g, a, c) /\ old_n' = a
  BY UpdateShape DEF ListInv
<1>3. PICK V \in SUBSET Addr : /\ Section(V)
                               /\ Missing \notin seen => \E T \in SUBSET V : Ahead(T)
  BY DEF WalkInv
<1>4. /\ key'[c] = wi /\ value'[c] = v
      /\ \A x \in Addr : x # c => key'[x] = key[x] /\ value'[x] = value[x]
      /\ UNCHANGED <<retired, gp, n, ri, rpc>>
      /\ seen \subseteq seen' /\ (ri = wi => v \in seen')
      /\ Missing \in seen' <=> Missing \in seen
  BY <1>1, <1>2, Sizes DEF MapTypes, Update
<1>5. (~Holds(ri))' => Missing \in seen'
  BY <1>1, <1>4, HoldsStep DEF WalkInv
<1>6. ~OnList(c) /\ c \in Addr /\ c \notin retired /\ c # old_n /\ c \notin on[g]
  BY <1>1, FreeIsNowhere
<1>7. \A x \in V : /\ x # c /\ x \in Addr /\ (OnList(x) \/ (x \in retired /\ Reader \in gp[x]))
                   /\ x \in on[g] => g = h
  BY <1>1, <1>3, <1>6, EndIsNoNode, SMT DEF Section, Protected, NodeInv
<1>8. PICK W \in SUBSET Addr : W = IF g = h THEN V \union {c} ELSE V
  BY <1>6
<1>9. on[h] \subseteq V /\ on[h] \subseteq Addr
  BY <1>1, <1>3 DEF Section, ListInv, ListTypes
<1>10. CASE AddRcu(g, c)
  <2>1. /\ \A f \in Heads : on'[f] = IF f = g THEN on[g] \union {c} ELSE on[f]
        /\ \A x : OnList(x)' <=> OnList(x) \/ x = c
    BY <1>1, <1>6, <1>10, AddedOn
  <2>2. next'[c] = first[g] /\ \A x \in Addr : x # c => next'[x] = next[x]
    BY <1>6, <1>10 DEF AddRcu, ListInv, ListTypes
  <2>3. \A x \in V : /\ Protected(x)' /\ HashOf[key'[x]] = h
                     /\ next'[x] \in V \union {End}
                     /\ key'[x] = ri => value'[x] \in seen'
    BY <1>3, <1>4, <1>7, <2>1, <2>2, SMT DEF Section, Protected
  <2>4. g = h => /\ Protected(c)' /\ HashOf[key'[c]] = h
                 /\ next'[c] \in V \union {End}
                 /\ key'[c] = ri => value'[c] \in seen'
    <3>1. first[g] \in on[g] \union {End}  BY <1>1 DEF ListInv, Linked
    <3>2. QED  BY <1>4, <1>9, <2>1, <2>2, <3>1 DEF Protected
  <2>5. on'[h] \subseteq W /\ n' \in W \union {End}
    BY <1>1, <1>3, <1>4, <1>8, <1>9, <2>1 DEF Section
  <2>6. \A x \in W : /\ Protected(x)' /\ HashOf[key'[x]] = h
                     /\ next'[x] \in W \union {End}
                     /\ key'[x] = ri => value'[x] \in seen'
    BY <1>8, <2>3, <2>4
  <2>7. Section(W)'  BY <1>4, <2>5, <2>6 DEF Section
  <2>8. \A T \in SUBSET V : Ahead(T) => T \in SUBSET W /\ Ahead(T)'
    BY <1>4, <1>7, <1>8, <2>2 DEF Ahead
  <2>9. QED  BY <1>3, <1>4, <1>5, <2>7, <2>8 DEF WalkInv
<1>11. ASSUME NEW a \in on[g], key[a] = wi, ReplaceRcu(g, a, c), old_n' = a
       PROVE  WalkInv'
  <2> HIDE DEF g, h
  <2>1. /\ \A f \in Heads : on'[f] = IF f = g THEN (on[g] \ {a}) \union {c} ELSE on[f]
        /\ \A x : OnList(x)' <=> (OnList(x) /\ x # a) \/ x = c
    <3>1. a \in on[g] /\ ReplaceRcu(g, a, c)  BY <1>11
    <3>2. g \in Heads /\ c \in Addr /\ c \notin on[g]  BY <1>1, <1>6
    <3>3. Swapped(g, a, c)  BY <3>1, <3>2, ReplacedOn
    <3>4. QED  BY <3>3 DEF Swapped
  <2>2. /\ \A f \in Heads : c \notin on[f]
        /\ \A x \in Addr : next'[x] = IF x = c THEN next[a]
                                      ELSE IF x \in on[g] /\ next[x] = a THEN c ELSE next[x]
    <3>1. \A f \in Heads : c \notin on[f]  BY FreeIsNowhere
    <3>2. QED  BY <1>1, <1>6, <1>11, <3>1, ReplaceLinks, SMT
  <2>3. \A x \in V : next'[x] \in {next[x], c} /\ (g # h => next'[x] = next[x])
    BY <1>7, <2>2
  <2>4. \A x \in V : /\ Protected(x)' /\ HashOf[key'[x]] = h
                     /\ next'[x] \in W \union {End}
                     /\ key'[x] = ri => value'[x] \in seen'
    <3>1. \A x \in V : Protected(x)'  BY <1>4, <1>7, <1>11, <2>1 DEF Protected
    <3>2. \A x \in V : HashOf[key'[x]] = h /\ next[x] \in V \union {End}
      BY <1>3, <1>4, <1>7, SMT DEF Section, h
    <3>3. \A x \in V : next'[x] \in W \union {End}  BY <1>8, <2>3, <3>2
    <3>4. \A x \in V : key'[x] = ri => value'[x] \in seen'  BY <1>3, <1>4, <1>7 DEF Section
    <3>5. QED  BY <3>1, <3>2, <3>3, <3>4
  <2>5. g = h => /\ Protected(c)' /\ HashOf[key'[c]] = h
                 /\ next'[c] \in W \union {End}
                 /\ key'[c] = ri => value'[c] \in seen'
    <3>1. g = h => a \in V  BY <1>9
    <3>2. g = h => next[a] \in W \union {End}  BY <1>3, <1>8, <3>1 DEF Section
    <3>3. Protected(c)'  BY <2>1 DEF Protected
    <3>4. HashOf[key'[c]] = g  BY <1>4 DEF g
    <3>5. QED  BY <1>4, <1>6, <2>2, <3>2, <3>3, <3>4
  <2>6. on'[h] \subseteq W /\ n' \in W \union {End}
    BY <1>1, <1>3, <1>4, <1>8, <1>9, <2>1 DEF Section
  <2>7. \A x \in W : /\ Protected(x)' /\ HashOf[key'[x]] = h
                     /\ next'[x] \in W \union {End}
                     /\ key'[x] = ri => value'[x] \in seen'
    BY <1>8, <2>4, <2>5
  <2>8. Section(W)'  BY <1>4, <2>6, <2>7 DEF Section, h
  <2>9. ASSUME NEW T \in SUBSET V, Ahead(T) PROVE \E U \in SUBSET W : Ahead(U)'
    <3>1. CASE a \in T
      <4>1. g = h /\ a # c  BY <1>7, <1>11, <3>1
      <4>2. PICK U \in SUBSET W : U = T \union {c}  BY <1>8, <4>1
      <4>3. \A x \in T : key'[x] = ri \/ next'[x] \in U
        BY <1>4, <1>7, <2>3, <2>9, <4>2 DEF Ahead
      <4>4. key'[c] = ri \/ next'[c] \in U
        BY <1>4, <1>6, <1>11, <2>2, <2>9, <3>1, <4>2 DEF Ahead
      <4>5. n' \in U  BY <1>4, <2>9, <4>2 DEF Ahead
      <4>6. Ahead(U)'  BY <1>4, <4>2, <4>3, <4>4, <4>5 DEF Ahead
      <4>7. QED  BY <4>6
    <3>2. CASE a \notin T
      <4>1. \A x \in T : key[x] = ri \/ next[x] # a  BY <2>9, <3>2 DEF Ahead
      <4>2. \A x \in T : key'[x] = ri \/ next'[x] \in T
        BY <1>4, <1>7, <2>2, <2>9, <4>1 DEF Ahead
      <4>3. Ahead(T)' /\ T \in SUBSET W  BY <1>4, <1>8, <2>9, <4>2 DEF Ahead
      <4>4. QED  BY <4>3
    <3>3. QED  BY <3>1, <3>2
  <2>10. QED  BY <1>3, <1>4, <1>5, <2>8, <2>9 DEF WalkInv
<1>12. QED  BY <1>2, <1>10, <1>11

\* A section under the removal of a node.
LEMMA WalkUnderRemove ==
  ASSUME ListInv, MapTypes, NodeInv, GraceInv, WalkInv, Remove, [Next]_vars, rpc = "walk",
         NEW a \in on[HashOf[wi]], key[a] = wi, DelRcu(HashOf[wi], a), old_n' = a,
         seen' = IF Reader \in inside /\ ri = wi THEN seen \union {Missing} ELSE seen
  PROVE  WalkInv'
<1> DEFINE g == HashOf[wi]
           h == HashOf[ri]
<1>1. g \in Heads /\ h \in Heads /\ ri \in Keys /\ wi \in Keys /\ old_n = End /\ Reader \in inside
  BY Sizes DEF MapTypes, Remove, GraceInv
<1>2. PICK V \in SUBSET Addr : /\ Section(V)
                               /\ Missing \notin seen => \E T \in SUBSET V : Ahead(T)
  BY DEF WalkInv
<1>3. /\ UNCHANGED <<key, value, retired, gp, n, ri, rpc>>
      /\ seen \subseteq seen' /\ (ri = wi => Missing \in seen') /\ (ri # wi => seen' = seen)
  BY <1>1 DEF Remove
<1>4. (~Holds(ri))' => Missing \in seen'
  BY <1>1, <1>3, HoldsStep DEF WalkInv
<1>5. /\ \A f \in Heads : on'[f] = IF f = g THEN on[g] \ {a} ELSE on[f]
      /\ \A x : OnList(x)' <=> OnList(x) /\ x # a
  BY <1>1, DeletedOn
<1>6. \A x \in Addr : next'[x] = IF x \in on[g] /\ next[x] = a THEN next[a] ELSE next[x]
  BY <1>1, DelLinks, SMT
<1>7. \A x \in V : /\ x \in Addr /\ (OnList(x) \/ (x \in retired /\ Reader \in gp[x]))
                   /\ x \in on[g] => g = h
  <2>1. \A x \in V : x \in Addr /\ Protected(x) /\ HashOf[key[x]] = h  BY <1>2 DEF Section
  <2>2. \A x \in on[g] : HashOf[key[x]] = g  BY <1>1 DEF NodeInv
  <2>3. \A x \in V : OnList(x) \/ (x \in retired /\ Reader \in gp[x])
    BY <1>1, <2>1, EndIsNoNode DEF Protected
  <2>4. QED  BY <2>1, <2>2, <2>3
<1>8. on[h] \subseteq V  BY <1>2 DEF Section
<1> HIDE DEF g, h
<1>9. \A x \in V : next'[x] \in V \union {End}
  <2>1. ASSUME NEW x \in V PROVE next'[x] \in V \union {End}
    <3>1. CASE x \in on[g] /\ next[x] = a
      <4>1. a \in V  BY <1>7, <1>8, <3>1 DEF g
      <4>2. QED  BY <1>2, <1>6, <1>7, <3>1, <4>1 DEF Section
    <3>2. CASE ~(x \in on[g] /\ next[x] = a)  BY <1>2, <1>6, <1>7, <3>2 DEF Section
    <3>3. QED  BY <3>1, <3>2
  <2>2. QED  BY <2>1
<1>10. Section(V)'
  <2>1. \A x \in V : Protected(x)'  BY <1>3, <1>5, <1>7 DEF Protected
  <2>2. on'[h] \subseteq V  BY <1>1, <1>5, <1>8
  <2>3. QED  BY <1>2, <1>3, <1>9, <2>1, <2>2 DEF Section, h
<1>11. ASSUME NEW T \in SUBSET V, Ahead(T), ri # wi PROVE Ahead(T)'
  <2>1. ASSUME NEW x \in T, key[x] # ri PROVE next'[x] \in T
    <3>1. next[x] \in T  BY <1>11, <2>1 DEF Ahead
    <3>2. next[x] = a => next[a] \in T  BY <1>11, <3>1 DEF Ahead
    <3>3. QED  BY <1>6, <1>7, <3>1, <3>2
  <2>2. QED  BY <1>3, <1>11, <2>1 DEF Ahead
<1>12. QED  BY <1>2, <1>3, <1>4, <1>10, <1>11 DEF WalkInv

LEMMA WalkStep ==
  ASSUME ListInv, MapTypes, NodeInv, GraceInv, WalkInv, [Next]_vars
  PROVE  WalkInv'
<1>1. CASE rpc' # "walk"  BY <1>1 DEF WalkInv
<1>2. CASE BeginRead  BY <1>2, WalkBegins
<1>3. CASE rpc = "walk" /\ Update  BY <1>3, WalkUnderUpdate
<1>4. ASSUME rpc = "walk" PROVE /\ ri \in Keys /\ HashOf[ri] \in Heads /\ Reader \in inside
                                /\ (~Holds(ri) => Missing \in seen)
  BY <1>4, Sizes DEF MapTypes, GraceInv, WalkInv
<1>5. CASE rpc = "walk" /\ Walk
  <2>1. PICK V \in SUBSET Addr : /\ Section(V)
                                 /\ Missing \notin seen => \E T \in SUBSET V : Ahead(T)
    BY <1>5 DEF WalkInv
  <2>2. /\ n \in V /\ key[n] # ri /\ n' = next[n]
        /\ UNCHANGED <<first, next, on, retired, gp, key, value, old_n, ri, seen>>
    BY <1>5, <2>1 DEF Walk, Section, nodes, rcuVars, writer
  <2>3. Section(V)'  BY <2>1, <2>2 DEF Section, Protected, OnList
  <2>4. \A T \in SUBSET V : Ahead(T) => Ahead(T)'  BY <2>2 DEF Ahead
  <2>5. (~Holds(ri))' => Missing \in seen'  BY <1>4, <1>5, <2>2 DEF Holds, OnList
  <2>6. QED  BY <2>1, <2>2, <2>3, <2>4, <2>5 DEF WalkInv
<1>6. ASSUME rpc = "walk", on' = on, n' = n, ri' = ri, seen' = seen,
             \A x \in Addr : Protected(x) =>
               /\ Protected(x)' /\ key'[x] = key[x] /\ value'[x] = value[x] /\ next'[x] = next[x],
             Holds(ri)' <=> Holds(ri)
      PROVE  WalkInv'
  <2>1. PICK V \in SUBSET Addr : /\ Section(V)
                                 /\ Missing \notin seen => \E T \in SUBSET V : Ahead(T)
    BY <1>6 DEF WalkInv
  <2>2. on'[HashOf[ri]] \subseteq V /\ seen \subseteq seen'  BY <1>6, <2>1 DEF Section
  <2>3. \A x \in V : /\ Protected(x)' /\ key'[x] = key[x] /\ value'[x] = value[x]
                     /\ next'[x] = next[x]
    BY <1>6, <2>1 DEF Section
  <2>4. Section(V)' /\ \A T \in SUBSET V : Ahead(T) => Ahead(T)'
    BY <1>6, <2>1, <2>2, <2>3, SectionKept
  <2>5. (~Holds(ri))' => Missing \in seen'  BY <1>4, <1>6
  <2>6. QED  BY <1>6, <2>1, <2>4, <2>5 DEF WalkInv
<1>7. CASE rpc = "walk" /\ Callbacks
  <2>1. PICK a \in Addr : Callback(a)  BY <1>7 DEF Callbacks
  <2>2. /\ a \in retired /\ gp[a] = {} /\ retired' = retired \ {a}
        /\ next' = [next EXCEPT ![a] = End]
        /\ key' = [key EXCEPT ![a] = 0] /\ value' = [value EXCEPT ![a] = 0]
        /\ UNCHANGED <<on, gp, old_n, n, ri, seen>>
    BY <2>1 DEF Callback, Reclaim, writer, reader
  <2>3. ~Protected(a)  BY <2>2 DEF Protected, NodeInv
  <2>4. \A x \in Addr : x # a => key'[x] = key[x] /\ value'[x] = value[x] /\ next'[x] = next[x]
    BY <2>2 DEF MapTypes, ListInv, ListTypes
  <2>5. \A x \in Addr : x # a /\ Protected(x) => Protected(x)'
    BY <2>2 DEF Protected, OnList
  <2>6. Holds(ri)' <=> Holds(ri)  BY <1>4, <1>7, <2>2, HoldsStep
  <2>7. QED  BY <1>6, <1>7, <2>2, <2>3, <2>4, <2>5, <2>6
<1>8. CASE rpc = "walk" /\ CallRcuOld
  <2>1. /\ old_n \in Addr /\ old_n' = End /\ retired' = retired \union {old_n}
        /\ gp' = [gp EXCEPT ![old_n] = inside]
        /\ UNCHANGED <<on, key, value, next, n, ri, seen>>
    BY <1>8 DEF CallRcuOld, CallRcu, Retire, reader, MapTypes
  <2>2. gp'[old_n] = inside /\ \A x \in Addr : x # old_n => gp'[x] = gp[x]
    BY <2>1 DEF MapTypes
  <2>3. \A x \in Addr : Protected(x) => Protected(x)'
    BY <1>4, <1>8, <2>1, <2>2 DEF Protected, OnList
  <2>4. Holds(ri)' <=> Holds(ri)  BY <2>1 DEF Holds, OnList
  <2>5. QED  BY <1>6, <1>8, <2>1, <2>3, <2>4
<1>9. CASE /\ rpc = "walk"
           /\ UNCHANGED <<next, on, retired, gp, key, value, old_n, n, ri, seen>>
  <2>1. \A x \in Addr : Protected(x) => Protected(x)'  BY <1>9 DEF Protected, OnList
  <2>2. Holds(ri)' <=> Holds(ri)  BY <1>9 DEF Holds, OnList
  <2>3. QED  BY <1>6, <1>9, <2>1, <2>2
<1>10. CASE rpc = "walk" /\ Remove
  <2>1. UNCHANGED <<retired, gp, key, value, n, ri>>  BY <1>10 DEF Remove
  <2>2. QED  BY <1>9, <1>10, <2>1, RemoveShape, WalkUnderRemove DEF ListInv
<1>11. Delete \/ EndRead \/ StartReader \/ Ready => rpc' # "walk"
  BY DEF Delete, EndRead, StartReader, Ready, reader
<1>12. UpdateFails \/ StartWriter \/ Rmmod \/ StopReader \/ UNCHANGED vars
         => UNCHANGED <<next, on, retired, gp, key, value, old_n, n, ri, seen, rpc>>
  BY DEF UpdateFails, StartWriter, Rmmod, StopReader, vars, nodes, rcuVars, writer, reader
<1>13. Update \/ Remove \/ Callbacks \/ Walk \/ CallRcuOld => rpc' = rpc
  BY DEF Update, Remove, Callbacks, Callback, Walk, CallRcuOld, reader
<1>14. QED
  BY <1>1, <1>2, <1>3, <1>5, <1>7, <1>8, <1>9, <1>10, <1>11, <1>12, <1>13, Steps
    DEF Elsewhere

\* The writer's progress: what it removed stays removed, and nothing comes back.
Progress(j) ==
    /\ Removed(j) => Removed(j)' /\ \A m \in Keys : Holds(m)' => Holds(m)
    /\ Holds(j) => Holds(j)' \/ Removed(j)'
    /\ \A k \in Keys : /\ Missing \in seen' /\ Missing \notin seen /\ k = ri
                       => Removed(k)' /\ ~Holds(k)'

LEMMA RemovedAdvances ==
  ASSUME MapTypes, wpc \in {"update", "remove"}, Advance, NEW j \in Keys, Removed(j)
  PROVE  Removed(j)'
<1>1. wpc = "remove" /\ j <= wi /\ wi \in Nat /\ j \in Nat
  <2>1. j \in Nat /\ wi \in Nat  BY Sizes DEF MapTypes
  <2>2. QED  BY <2>1, SMT DEF Removed
<1>2. wpc' = "exited" \/ (wpc' = "remove" /\ wi' = wi + 1)  BY <1>1, AdvanceCases
<1>3. QED  BY <1>1, <1>2, SMT DEF Removed

LEMMA WriterProgress ==
  ASSUME ListInv, MapTypes, NodeInv, WriterInv, [Next]_vars, wpc \notin {"new", "fill"},
         NEW j \in Keys,
         Update \/ UpdateFails \/ Remove \/ CallRcuOld \/ Callbacks \/ Delete
  PROVE  Progress(j)
<1>1. CASE Update
  <2>1. wpc = "update" /\ ~Removed(j)
    <3>1. wpc \in {"fill", "update"}  BY <1>1 DEF Update
    <3>2. QED  BY <3>1 DEF Removed
  <2>2. Holds(j) => Holds(j)'  BY <1>1, HoldsStep
  <2>3. Missing \in seen' => Missing \in seen  BY <1>1, UpdateShape, Sizes, SMT DEF ListInv
  <2>4. QED  BY <2>1, <2>2, <2>3 DEF Progress
<1>2. CASE Remove
  <2>1. wpc = "remove" /\ \A m \in Keys : Holds(m)' <=> Holds(m) /\ m # wi
    BY <1>2, HoldsStep DEF Remove
  <2>2. wi \in Keys /\ HashOf[wi] \in Heads /\ ri' = ri  BY <1>2, Sizes DEF MapTypes, Remove
  <2>3. CASE ~Holds(wi) /\ Advance /\ seen' = seen
    <3>1. Removed(j) => Removed(j)'  BY <2>1, <2>3, RemovedAdvances
    <3>2. Holds(j) => Holds(j)'  BY <2>1, <2>3
    <3>3. QED  BY <2>1, <2>3, <3>1, <3>2 DEF Progress
  <2>4. ASSUME NEW a \in on[HashOf[wi]], old_n' = a, UNCHANGED <<wpc, wi>>,
               seen' = IF Reader \in inside /\ ri = wi THEN seen \union {Missing} ELSE seen
        PROVE  Progress(j)
    <3>1. a # End  BY <2>2, EndIsNoNode DEF ListInv, ListTypes
    <3>2. \A k \in Keys : k = wi => Removed(k)'  BY <2>1, <2>4, <3>1 DEF Removed
    <3>3. Removed(j) => Removed(j)'  BY <2>1, <2>4, <3>1 DEF Removed
    <3>4. Missing \in seen' /\ Missing \notin seen => ri = wi  BY <2>4
    <3>5. QED  BY <2>1, <2>2, <3>2, <3>3, <3>4 DEF Progress
  <2>5. QED  BY <1>2, <2>3, <2>4, RemoveShape DEF ListInv
<1>3. CASE UpdateFails \/ CallRcuOld
  <2>1. \A m \in Keys : Holds(m)' <=> Holds(m)  BY <1>3, HoldsStep DEF Elsewhere
  <2>2. seen' = seen /\ Advance /\ wpc \in {"update", "remove"}
    BY <1>3 DEF UpdateFails, CallRcuOld, reader, WriterInv
  <2>3. QED  BY <2>1, <2>2, RemovedAdvances DEF Progress
<1>4. CASE Callbacks
  <2>1. \A m \in Keys : Holds(m)' <=> Holds(m)  BY <1>4, HoldsStep
  <2>2. UNCHANGED <<seen, wpc, wi, old_n>>
    BY <1>4 DEF Callbacks, Callback, reader, writer
  <2>3. QED  BY <2>1, <2>2 DEF Progress, Removed
<1>5. CASE Delete
  <2>1. \A m \in Keys : ~Holds(m)'  BY <1>5, HoldsStep
  <2>2. UNCHANGED <<seen, wpc, wi, old_n>> /\ wpc = "exited"
    BY <1>5 DEF Delete, reader, writer, WriterInv
  <2>3. QED  BY <2>1, <2>2 DEF Progress, Removed
<1>6. QED  BY <1>1, <1>2, <1>3, <1>4, <1>5

\* Stored(j) under the steps of the writer.
LEMMA StoredKept ==
  ASSUME MapTypes, NEW j \in 1 .. OP_COUNT - 1, Stored(j), Progress(j),
         UNCHANGED <<rpc, ri, sum>>
  PROVE  Stored(j)'
<1>1. ri \in Keys /\ j \in Keys /\ j \in Nat /\ ri \in Nat
  BY Sizes, SMT DEF MapTypes, Keys
<1>2. Holds(j)' \/ Removed(j)'  BY DEF Stored, Progress
<1>3. \A m \in j + 1 .. ri - 1 : m \in Keys
  <2>1. ASSUME NEW m \in j + 1 .. ri - 1 PROVE m \in Keys
    <3>1. ri < OP_COUNT  BY <1>1, KeysBelow
    <3>2. m \in Nat /\ m < OP_COUNT  BY <1>1, <3>1, Sizes, SMT
    <3>3. QED  BY <3>2, KeysBelow
  <2>2. QED  BY <2>1
<1>4. rpc \in {"lock", "walk"} /\ sum = 0 /\ j < ri =>
         Removed(j)' /\ \A m \in j + 1 .. ri - 1 : ~Holds(m)'
  BY <1>3 DEF Stored, Progress
<1>5. rpc = "walk" /\ Missing \in seen' =>
         /\ j = ri => Removed(j)'
         /\ \A k \in Keys : sum = 0 /\ j < ri /\ k = ri => ~Holds(k)'
  BY <1>1 DEF Stored, Progress
<1>6. QED  BY <1>1, <1>2, <1>4, <1>5 DEF Stored

\* What the reader's section has found when it ends.
LEMMA ReadFinds ==
  ASSUME MapTypes, NodeInv, GraceInv, WalkInv, EndRead
  PROVE  /\ n = End => Missing \in seen
         /\ n # End => n \in Addr /\ key[n] = ri /\ value[n] \in seen /\ (ri > 0 => value[n] > 0)
<1>1. rpc = "walk" /\ (n # End => key[n] = ri) /\ n \in Addr \union {End}
  BY DEF EndRead, MapTypes
<1>2. PICK V \in SUBSET Addr : /\ Section(V)
                               /\ Missing \notin seen => \E T \in SUBSET V : Ahead(T)
  BY <1>1 DEF WalkInv
<1>3. n = End => Missing \in seen
  <2>1. \A T \in SUBSET V : Ahead(T) => n # End  BY EndIsNoNode DEF Ahead
  <2>2. QED  BY <1>2, <2>1
<1>4. n # End => value[n] \in seen  BY <1>1, <1>2 DEF Section
<1>5. QED  BY <1>1, <1>3, <1>4, ZenonT(30) DEF NodeInv

\* When the sum is still 0 behind key j, the keys from j to ri are gone.
LEMMA SumRead ==
  ASSUME MapTypes, NodeInv, GraceInv, WalkInv, EndRead,
         NEW j \in 1 .. OP_COUNT - 1, Stored(j), j <= ri, sum = 0, ~(n # End /\ value[n] > 0)
  PROVE  Removed(j) /\ \A m \in j + 1 .. ri : ~Holds(m)
<1>1. rpc = "walk" /\ j \in Nat /\ ri \in Nat /\ j > 0 /\ ri > 0
  BY Sizes, SMT DEF EndRead, MapTypes
<1>2. Missing \in seen  BY <1>1, ReadFinds
<1>3. CASE j = ri  BY <1>1, <1>2, <1>3, SMT DEF Stored
<1>4. CASE j < ri
  <2>1. Removed(j) /\ ~Holds(ri) /\ \A m \in j + 1 .. ri - 1 : ~Holds(m)
    BY <1>1, <1>2, <1>4 DEF Stored
  <2>2. \A m \in j + 1 .. ri : m = ri \/ m \in j + 1 .. ri - 1  BY <1>1, SMT
  <2>3. QED  BY <2>1, <2>2
<1>5. QED  BY <1>1, <1>3, <1>4, SMT

\* The reader ends only on an empty map.
LEMMA ReaderDone ==
  ASSUME ListInv, MapTypes, NodeInv, GraceInv, WalkInv, WriterInv, SumInv,
         EndRead, rpc' = "exited"
  PROVE  wpc \in {"remove", "exited"} /\ \A k \in Keys : ~Holds(k)
<1>1. /\ ~(ri + 1 < OP_COUNT) /\ sum = 0 /\ ~(n # End /\ value[n] > 0) /\ rpc = "walk"
  BY SMT DEF EndRead, MapTypes
<1>2. ri \in Keys /\ ri \in Nat /\ ri + 1 = OP_COUNT
  <2>1. ri \in Keys  BY DEF MapTypes
  <2>2. QED  BY <1>1, <2>1, KeysBelow, Sizes, SMT
<1>3. PICK j \in 1 .. OP_COUNT - 1 : Stored(j)  BY <1>1 DEF WriterInv, SumInv
<1>4. j \in Nat /\ j <= ri  BY <1>2, <1>3, Sizes, SMT
<1>5. Removed(j) /\ \A m \in j + 1 .. ri : ~Holds(m)  BY <1>1, <1>3, <1>4, SumRead
<1>6. wi \in Nat  BY Sizes DEF MapTypes
<1>7. ASSUME NEW k \in Keys PROVE ~Holds(k)
  <2>1. k \in Nat /\ k < OP_COUNT  BY KeysBelow, Sizes
  <2>2. CASE k > j
    <3>1. k \in j + 1 .. ri  BY <1>2, <1>4, <2>1, <2>2, SMT
    <3>2. QED  BY <1>5, <3>1
  <2>3. CASE ~(k > j)
    <3>1. k <= j  BY <1>4, <2>1, <2>3, SMT
    <3>2. Removed(k)  BY <1>4, <1>5, <1>6, <2>1, <3>1, SMT DEF Removed
    <3>3. QED  BY <3>2 DEF WriterInv
  <2>4. QED  BY <2>2, <2>3
<1>8. QED  BY <1>5, <1>7 DEF Removed

LEMMA SumStep ==
  ASSUME SomeKeyIsStored, ListInv, MapTypes, NodeInv, GraceInv, WalkInv, WriterInv, SumInv,
         [Next]_vars
  PROVE  SumInv'
<1>1. CASE task_init_val = 1
  <2>1. PICK j \in 1 .. OP_COUNT - 1 : Stored(j)  BY <1>1 DEF SumInv
  <2>2. j \in Keys /\ j \in Nat /\ j > 0 /\ ri \in Keys /\ ri \in Nat
    BY Sizes, SMT DEF Keys, MapTypes
  <2>3. wpc \notin {"new", "fill"}  BY <1>1, SMT DEF WriterInv
  <2>4. SUFFICES Stored(j)'  BY <2>1 DEF SumInv
  <2>5. CASE Update \/ UpdateFails \/ Remove \/ CallRcuOld \/ Callbacks \/ Delete
    <3>1. Progress(j)  BY <2>2, <2>3, <2>5, WriterProgress
    <3>2. UNCHANGED <<rpc, ri, sum>>
      BY <2>5 DEF Update, UpdateFails, Remove, CallRcuOld, Callbacks, Callback,
         Delete, reader
    <3>3. QED  BY <2>1, <3>1, <3>2, StoredKept
  <2>6. CASE BeginRead
    <3>1. /\ UNCHANGED <<on, key, wpc, wi, old_n, ri, sum>> /\ rpc = "lock" /\ rpc' = "walk"
          /\ seen' = {Current(ri)}
      BY <2>6 DEF BeginRead, writer
    <3>2. Missing \in seen' => ~Holds(ri)
      <4>1. ASSUME Holds(ri) PROVE Current(ri) # Missing
        <5>1. NodesOf(ri) # {}  BY <2>2, <4>1, WhatHolds DEF ListInv
        <5>2. NodesOf(ri) \subseteq Addr  BY <2>2, WhatHolds DEF ListInv
        <5>3. \E x \in Addr : Current(ri) = value[x]  BY <5>1, <5>2 DEF Current
        <5>4. QED  BY <5>3, Sizes DEF MapTypes
      <4>2. QED  BY <3>1, <4>1
    <3>3. \A m : (Holds(m)' <=> Holds(m)) /\ (Removed(m)' <=> Removed(m))
      BY <3>1 DEF Holds, OnList, Removed
    <3>4. QED  BY <2>1, <3>1, <3>2, <3>3 DEF Stored
  <2>7. CASE EndRead
    <3>1. UNCHANGED <<on, key, wpc, wi, old_n>> /\ rpc' \in {"lock", "exited"}
      BY <2>7 DEF EndRead, writer
    <3>2. \A m : (Holds(m)' <=> Holds(m)) /\ (Removed(m)' <=> Removed(m))
      BY <3>1 DEF Holds, OnList, Removed
    <3>3. CASE ri' = 0
      <4>1. ~(j < ri')  BY <2>2, <3>3, SMT
      <4>2. QED  BY <2>1, <3>1, <3>2, <4>1 DEF Stored
    <3>4. CASE ri' = ri + 1 /\ sum' = IF n # End /\ value[n] > 0 THEN 1 ELSE sum
      <4>1. ASSUME sum' = 0, j < ri' PROVE Removed(j) /\ \A m \in j + 1 .. ri' - 1 : ~Holds(m)
        <5>1. sum = 0 /\ ~(n # End /\ value[n] > 0) /\ j <= ri  BY <2>2, <3>4, <4>1, SMT
        <5>2. ri' - 1 = ri  BY <2>2, <3>4, SMT
        <5>3. QED  BY <2>1, <2>7, <5>1, <5>2, SumRead
      <4>2. Holds(j) \/ Removed(j)  BY <2>1 DEF Stored
      <4>3. QED  BY <3>1, <3>2, <4>1, <4>2 DEF Stored
    <3>5. QED  BY <2>7, <3>3, <3>4 DEF EndRead
  <2>8. CASE Ready \/ StartReader
    <3>1. UNCHANGED <<on, key, wpc, wi, old_n, ri>> /\ ri = 0 /\ rpc' # "walk"
      BY <2>8 DEF Ready, StartReader, nodes, rcuVars, writer, GraceInv
    <3>2. \A m : (Holds(m)' <=> Holds(m)) /\ (Removed(m)' <=> Removed(m))
      BY <3>1 DEF Holds, OnList, Removed
    <3>3. ~(j < ri')  BY <2>2, <3>1, SMT
    <3>4. QED  BY <2>1, <3>1, <3>2, <3>3 DEF Stored
  <2>9. CASE Walk \/ Rmmod \/ StopReader \/ UNCHANGED vars
    <3>1. UNCHANGED <<on, key, wpc, wi, old_n, ri, rpc, sum, seen>>
      BY <2>9 DEF Walk, Rmmod, StopReader, vars, nodes, rcuVars, writer, reader
    <3>2. QED  BY <2>1, <3>1 DEF Stored, Removed, Holds, OnList
  <2>10. ~StartWriter  BY <2>3 DEF StartWriter
  <2>11. QED  BY <2>5, <2>6, <2>7, <2>8, <2>9, <2>10, Steps DEF Elsewhere
<1>2. CASE task_init_val = 0 /\ task_init_val' = 1
  <2>1. wpc = "fill" /\ Advance /\ (Update \/ UpdateFails)
    <3>1. Update \/ UpdateFails \/ Remove \/ CallRcuOld
      <4>1. ~StartWriter /\ ~StartReader /\ ~Ready /\ ~BeginRead /\ ~Walk /\ ~EndRead
        BY <1>2, SMT DEF StartWriter, StartReader, Ready, BeginRead, Walk, EndRead, writer
      <4>2. ~Rmmod /\ ~StopReader /\ ~UNCHANGED vars /\ ~Callbacks /\ ~Delete
        BY <1>2, SMT DEF Rmmod, StopReader, vars, writer, Callbacks, Callback, Delete
      <4>3. QED  BY <4>1, <4>2, Steps DEF Elsewhere
    <3>2. wpc = "fill"
      <4>1. wpc \notin {"update", "remove"}  BY <1>2, SMT DEF WriterInv
      <4>2. ~CallRcuOld  BY <4>1 DEF CallRcuOld, WriterInv
      <4>3. QED  BY <3>1, <4>1, <4>2 DEF Update, UpdateFails, Remove
    <3>3. Update \/ UpdateFails  BY <3>1, <3>2 DEF Remove, CallRcuOld, WriterInv
    <3>4. Advance
      <4>1. CASE Update
        <5>1. Advance \/ task_init_val' = task_init_val
          BY <4>1, UpdateShape DEF ListInv
        <5>2. QED  BY <1>2, <5>1, SMT
      <4>2. CASE UpdateFails  BY <4>2 DEF UpdateFails
      <4>3. QED  BY <3>3, <4>1, <4>2
    <3>5. QED  BY <3>2, <3>3, <3>4
  <2>2. wi + 1 = OP_COUNT /\ wi \in Keys /\ wi \in Nat /\ fails \in 0 .. MaxFail
    BY <1>2, <2>1, AdvanceCases, Sizes, SMT DEF MapTypes
  <2>3. \E j \in 1 .. OP_COUNT - 1 : Holds(j)'
    <3>1. CASE \E j \in 1 .. wi - 1 : Holds(j)
      <4>1. PICK j \in 1 .. wi - 1 : Holds(j)  BY <3>1
      <4>2. j \in Keys /\ j \in 1 .. OP_COUNT - 1  BY <2>2, SMT DEF Keys
      <4>3. Holds(j)'  BY <2>1, <4>1, <4>2, HoldsStep DEF Elsewhere
      <4>4. QED  BY <4>2, <4>3
    <3>2. CASE wi - 1 <= fails
      <4>1. fails + 1 = wi /\ wi > 0 /\ ~(fails < MaxFail)
        BY <2>2, <3>2, Sizes, SMT DEF SomeKeyIsStored
      <4>2. Update  BY <2>1, <4>1 DEF UpdateFails
      <4>3. \A k \in Keys : k = wi => Holds(k)'  BY <4>2, HoldsStep
      <4>4. wi \in 1 .. OP_COUNT - 1  BY <2>2, <4>1, SMT
      <4>5. QED  BY <2>2, <4>3, <4>4
    <3>3. QED  BY <2>1, <3>1, <3>2 DEF WriterInv
  <2>4. rpc \notin {"lock", "walk"} /\ rpc' = rpc
    BY <1>2, <2>1, SMT DEF WriterInv, Update, UpdateFails, reader
  <2>5. QED  BY <2>3, <2>4 DEF SumInv, Stored
<1>3. CASE task_init_val' # 1  BY <1>3 DEF SumInv
<1>4. QED  BY <1>1, <1>2, <1>3 DEF MapTypes

\* The keys still in the map under the writer's steps.
Ordered(k) == wpc # "new" /\ ~Removed(k) /\ (wpc = "fill" => k < wi)

LEMMA HoldsAdvance ==
  ASSUME MapTypes, Advance, wpc \in {"fill", "update", "remove"},
         NEW k \in Keys, Ordered(k) \/ (k = wi /\ wpc \in {"fill", "update"}),
         wpc = "remove" => k # wi, old_n' = End
  PROVE  Ordered(k)'
<1>1. k \in Nat /\ wi \in Nat /\ k < OP_COUNT
  BY Sizes, KeysBelow DEF MapTypes
<1>2. CASE wpc \in {"fill", "update"}
  <2>1. wpc = "fill" => k <= wi  BY <1>1, <1>2, SMT DEF Ordered
  <2>2. \/ wi' = wi + 1 /\ wpc' = wpc
        \/ wi' = 0 /\ wpc' \in {"update", "remove"}
    BY <1>2, AdvanceCases
  <2>3. wpc' = "fill" => k < wi'  BY <1>1, <1>2, <2>1, <2>2, SMT
  <2>4. ~Removed(k)'  BY <1>1, <1>2, <2>2, SMT DEF Removed
  <2>5. QED  BY <1>1, <1>2, <2>2, <2>3, <2>4 DEF Ordered
<1>3. CASE wpc = "remove"
  <2>1. wi < k
    <3>1. ~(k < wi) /\ k # wi  BY <1>3 DEF Ordered, Removed
    <3>2. QED  BY <1>1, <3>1, SMT
  <2>2. wi + 1 < OP_COUNT  BY <1>1, <2>1, Sizes, SMT
  <2>3. wi' = wi + 1 /\ wpc' = "remove"  BY <1>3, <2>2, AdvanceCases, <1>1, Sizes, SMT
  <2>4. ~Removed(k)'  BY <1>1, <2>1, <2>3, SMT DEF Removed
  <2>5. QED  BY <1>1, <2>3, <2>4 DEF Ordered
<1>4. QED  BY <1>2, <1>3

LEMMA WriterStep ==
  ASSUME ListInv, MapTypes, NodeInv, WriterInv, [Next]_vars
  PROVE  WriterInv'
<1> DEFINE Control ==
             /\ wpc \in {"new", "fill"} => task_init_val = 0
             /\ wpc = "new" => wi = 0
             /\ wpc \notin {"update", "remove"} => old_n = End
             /\ wpc \in {"update", "remove"} => task_init_val = 1
             /\ rpc \in {"lock", "walk"} => task_init_val = 1
             /\ mod \in {"stop_r", "unloaded", "oops"} => wpc = "exited"
           Keep == \A k \in Keys : Holds(k) => Ordered(k)
           Fill == wpc = "fill" => wi - 1 <= fails \/ \E j \in 1 .. wi - 1 : Holds(j)
<1>1. Control /\ Keep /\ Fill  BY DEF WriterInv, Ordered
<1>2. SUFFICES Control' /\ Keep' /\ Fill'  BY DEF WriterInv, Ordered
<1>3. /\ wi \in Keys /\ wi \in Nat /\ HashOf[wi] \in Heads /\ fails \in Nat
      /\ wpc \in {"new", "fill", "update", "remove", "exited"}
  BY Sizes, SMT DEF MapTypes
<1>4. ASSUME Update \/ UpdateFails, Advance, old_n' = End
      PROVE  Control' /\ Keep' /\ Fill'
  <2>1. wpc \in {"fill", "update"} /\ UNCHANGED <<rpc, mod>>
    BY <1>4 DEF Update, UpdateFails, reader
  <2>2. Control'  BY <1>1, <1>4, <2>1, AdvanceCases
  <2>4. \A k \in Keys : Holds(k)' => Holds(k) \/ k = wi  BY <1>4, HoldsStep DEF Elsewhere
  <2>5. Keep'  BY <1>1, <1>4, <2>1, <2>4, HoldsAdvance
  <2>6. ASSUME wpc' = "fill" PROVE wi' - 1 <= fails' \/ \E j \in 1 .. wi' - 1 : Holds(j)'
    <3>1. wpc = "fill" /\ wi' = wi + 1 /\ wi + 1 < OP_COUNT
      BY <1>4, <2>1, <2>6, AdvanceCases
    <3>2. CASE UpdateFails
      <4>1. fails' = fails + 1 /\ \A k \in Keys : Holds(k)' <=> Holds(k)
        BY <3>2, HoldsStep DEF UpdateFails, Elsewhere
      <4>2. \A j \in 1 .. wi - 1 : j \in Keys /\ j \in 1 .. wi' - 1
        BY <1>3, <3>1, Sizes, SMT DEF Keys
      <4>3. CASE wi - 1 <= fails  BY <1>3, <3>1, <4>1, <4>3, SMT
      <4>4. CASE \E j \in 1 .. wi - 1 : Holds(j)  BY <4>1, <4>2, <4>4
      <4>5. QED  BY <1>1, <3>1, <4>3, <4>4
    <3>3. CASE Update
      <4>1. fails' = fails /\ \A k \in Keys : Holds(k)' <=> Holds(k) \/ k = wi
        BY <3>3, HoldsStep DEF Update
      <4>2. CASE wi = 0  BY <1>3, <3>1, <4>1, <4>2, SMT
      <4>3. CASE wi # 0
        <5>1. wi \in 1 .. wi' - 1  BY <1>3, <3>1, <4>3, SMT
        <5>2. PICK j \in 1 .. wi' - 1 : j = wi  BY <5>1
        <5>3. Holds(j)'  BY <1>3, <4>1, <5>2
        <5>4. QED  BY <5>3
      <4>4. QED  BY <4>2, <4>3
    <3>4. QED  BY <1>4, <3>2, <3>3
  <2>7. QED  BY <2>2, <2>5, <2>6
<1>5. ASSUME Update, NEW a \in on[HashOf[wi]], key[a] = wi, old_n' = a,
             UNCHANGED <<wpc, wi, step, task_init_val>>
      PROVE  Control' /\ Keep' /\ Fill'
  <2>1. a \in Addr /\ OnList(a)  BY <1>3 DEF ListInv, ListTypes, OnList
  <2>2. Holds(wi)  BY <1>5, <2>1 DEF Holds
  <2>3. wpc = "update" /\ UNCHANGED <<rpc, mod>>
    BY <1>1, <1>3, <1>5, <2>2, SMT DEF Ordered, Update
  <2>4. Control'  BY <1>1, <1>5, <2>3
  <2>5. \A k \in Keys : Holds(k)' => Holds(k) \/ k = wi  BY <1>5, HoldsStep
  <2>7. Keep'  BY <1>5, <2>3 DEF Ordered, Removed
  <2>8. QED  BY <1>5, <2>3, <2>4, <2>7
<1>6. CASE Update
  <2>1. \/ Advance /\ old_n' = End
        \/ \E a \in on[HashOf[wi]] : /\ key[a] = wi /\ old_n' = a
                                     /\ UNCHANGED <<wpc, wi, step, task_init_val>>
    BY <1>6, UpdateShape DEF ListInv
  <2>2. QED  BY <1>4, <1>5, <1>6, <2>1
<1>7. CASE UpdateFails  BY <1>4, <1>7 DEF UpdateFails
<1>8. ASSUME wpc \in {"update", "remove"}, Advance, old_n' = End, UNCHANGED <<rpc, mod>>,
             wpc = "remove" => (Holds(wi) => old_n # End),
             \A k \in Keys : Holds(k)' => Holds(k)
      PROVE  Control' /\ Keep' /\ Fill'
  <2>1. Control'  BY <1>1, <1>8, AdvanceCases
  <2>2. \A k \in Keys : Holds(k) /\ wpc = "remove" => k # wi
    BY <1>1, <1>8 DEF Ordered, Removed
  <2>3. Keep'  BY <1>1, <1>8, <2>2, HoldsAdvance
  <2>4. wpc' # "fill"  BY <1>8, AdvanceCases
  <2>5. QED  BY <2>1, <2>3, <2>4
<1>9. CASE CallRcuOld
  <2>1. /\ wpc \in {"update", "remove"} /\ Advance /\ old_n # End /\ old_n' = End
        /\ UNCHANGED <<rpc, mod>>
    BY <1>1, <1>9 DEF CallRcuOld, reader
  <2>2. \A k \in Keys : Holds(k)' => Holds(k)  BY <1>9, HoldsStep DEF Elsewhere
  <2>3. QED  BY <1>8, <2>1, <2>2
<1>10. CASE Remove
  <2>1. wpc = "remove" /\ old_n = End /\ UNCHANGED <<rpc, mod>>  BY <1>10 DEF Remove
  <2>2. \A k \in Keys : Holds(k)' <=> Holds(k) /\ k # wi  BY <1>10, HoldsStep
  <2>3. CASE ~Holds(wi) /\ Advance /\ old_n' = old_n  BY <1>8, <2>1, <2>2, <2>3
  <2>4. CASE UNCHANGED <<wpc, wi, step, task_init_val>>
    <3>1. Control'  BY <1>1, <2>1, <2>4
    <3>2. Keep'  BY <1>1, <2>1, <2>2, <2>4 DEF Ordered, Removed
    <3>3. QED  BY <2>1, <2>4, <3>1, <3>2
  <2>5. QED  BY <1>10, <2>3, <2>4, RemoveShape DEF ListInv
<1>11. CASE Delete
  <2>1. /\ UNCHANGED <<wpc, wi, old_n, task_init_val, fails, rpc>>
        /\ mod = "stop_r" /\ mod' = "unloaded"
    BY <1>11 DEF Delete, writer, reader
  <2>2. \A k \in Keys : ~Holds(k)'  BY <1>11, HoldsStep
  <2>3. wpc = "exited"  BY <1>1, <2>1
  <2>4. QED  BY <1>1, <2>1, <2>2, <2>3
<1>12. CASE StartWriter
  <2>1. /\ wpc = "new" /\ wpc' = IF mod = "loaded" THEN "fill" ELSE "exited"
        /\ UNCHANGED <<wi, old_n, task_init_val, fails, rpc, mod>>
    BY <1>12 DEF StartWriter, reader
  <2>2. \A k \in Keys : ~Holds(k)'  BY <1>1, <1>12, <2>1, HoldsStep DEF Elsewhere, Ordered
  <2>3. Control'  BY <1>1, <2>1
  <2>4. wi' - 1 <= fails'  BY <1>1, <1>3, <2>1, SMT
  <2>5. QED  BY <2>2, <2>3, <2>4
<1>13. CASE Callbacks \/ StartReader \/ Ready \/ BeginRead \/ Walk \/ EndRead \/ Rmmod
            \/ StopReader \/ UNCHANGED vars
  <2>1. UNCHANGED <<wpc, wi, old_n, task_init_val, fails>>
    BY <1>13 DEF Callbacks, Callback, StartReader, Ready, BeginRead, Walk, EndRead,
       Rmmod,
                 StopReader, vars, writer
  <2>2. \A k \in Keys : Holds(k)' <=> Holds(k)  BY <1>13, HoldsStep DEF Elsewhere
  <2>3. /\ rpc' \in {"lock", "walk"} => rpc \in {"lock", "walk"} \/ task_init_val = 1
        /\ mod' \in {"stop_r", "unloaded", "oops"} =>
             mod \in {"stop_r", "unloaded", "oops"} \/ wpc = "exited"
    BY <1>13 DEF Callbacks, Callback, StartReader, Ready, BeginRead, Walk, EndRead,
       Rmmod,
                 StopReader, vars, reader
  <2>4. Control'  BY <1>1, <2>1, <2>3
  <2>5. Keep'  BY <1>1, <2>1, <2>2, <2>3 DEF Ordered, Removed
  <2>6. \A j \in 1 .. wi - 1 : j \in Keys
    <3>1. wi < OP_COUNT  BY <1>3, KeysBelow
    <3>2. QED  BY <1>3, <3>1, Sizes, SMT DEF Keys
  <2>7. Fill'  BY <1>1, <2>1, <2>2, <2>6
  <2>8. QED  BY <2>4, <2>5, <2>7
<1>14. QED
  BY <1>6, <1>7, <1>9, <1>10, <1>11, <1>12, <1>13, Steps DEF Elsewhere

LEMMA MapInitially ==
  ASSUME Init
  PROVE  MapInv /\ SumInv /\ DoneInv
<1>1. /\ first = [h \in Heads |-> End] /\ next = [a \in Addr |-> End]
      /\ on = [h \in Heads |-> {}] /\ alloc = {} /\ inside = {} /\ retired = {}
      /\ gp = [a \in Addr |-> {}] /\ key = [a \in Addr |-> 0] /\ value = [a \in Addr |-> 0]
      /\ wpc = "new" /\ wi = 0 /\ step = 1 /\ old_n = End /\ task_init_val = 0 /\ fails = 0
      /\ rpc = "new" /\ ri = 0 /\ sum = 0 /\ n = End /\ seen = {} /\ mod = "loaded"
  BY DEF Init, RcuInit
<1>2. ListInv
  <2>1. \A h \in Heads : Linked(h)  BY <1>1 DEF Linked
  <2>2. [a \in Addr |-> 0] \in Positions  BY SMT DEF Positions
  <2>3. PICK pos \in Positions : TRUE  BY <2>2
  <2>4. \A h \in Heads : Sorted(h, pos)  BY <1>1 DEF Sorted
  <2>5. QED  BY <1>1, <2>1, <2>4 DEF ListInv, ListTypes
<1>3. \A a : ~OnList(a)  BY <1>1 DEF OnList
<1>4. \A k : ~Holds(k)  BY <1>3 DEF Holds
<1>5. MapTypes  BY <1>1, Sizes, SMT DEF MapTypes
<1>6. NodeInv  BY <1>1, <1>3, EndIsNoNode DEF NodeInv
<1>7. GraceInv /\ WalkInv /\ SumInv /\ DoneInv  BY <1>1, SMT DEF GraceInv, WalkInv, SumInv, DoneInv
<1>8. WriterInv  BY <1>1, <1>4 DEF WriterInv
<1>9. QED  BY <1>2, <1>5, <1>6, <1>7, <1>8 DEF MapInv

LEMMA DoneStep ==
  ASSUME ListInv, MapTypes, NodeInv, GraceInv, WalkInv, WriterInv, SumInv, DoneInv,
         [Next]_vars
  PROVE  DoneInv'
<1>1. SUFFICES ASSUME rpc' = "exited"
               PROVE  wpc' \in {"remove", "exited"} /\ \A k \in Keys : ~Holds(k)'
  BY DEF DoneInv
<1>2. CASE EndRead
  <2>1. wpc' = wpc /\ \A k \in Keys : Holds(k)' <=> Holds(k)
    BY <1>2, HoldsStep DEF EndRead, writer, Elsewhere
  <2>2. QED  BY <1>1, <1>2, <2>1, ReaderDone
<1>3. CASE StartReader
  <2>1. wpc = "exited" /\ wpc' = wpc /\ \A k \in Keys : Holds(k)' <=> Holds(k)
    BY <1>1, <1>3, HoldsStep DEF StartReader, writer, Elsewhere, WriterInv
  <2>2. QED  BY <2>1 DEF WriterInv, Removed
<1>4. CASE rpc = "exited" /\ ~StartReader /\ ~EndRead
  <2>1. wpc \in {"remove", "exited"} /\ \A k \in Keys : ~Holds(k)  BY <1>4 DEF DoneInv
  <2>2. ~Update /\ ~UpdateFails /\ ~StartWriter
    BY <2>1 DEF Update, UpdateFails, StartWriter
  <2>3. \A k \in Keys : ~Holds(k)'  BY <2>1, <2>2, HoldsStep, Steps
  <2>4. wpc' \in {"remove", "exited"}
    <3>1. CASE Remove
      BY <2>1, <3>1, RemoveShape, AdvanceCases DEF Remove, ListInv
    <3>2. CASE CallRcuOld
      BY <2>1, <3>2, AdvanceCases DEF CallRcuOld, WriterInv
    <3>3. CASE ~Remove /\ ~CallRcuOld
      <4>1. wpc' = wpc
        BY <1>4, <2>2, <3>3, Steps
          DEF Elsewhere, Ready, BeginRead, Walk, Rmmod, StopReader,
           vars, writer, Callbacks, Callback, Delete
      <4>2. QED  BY <2>1, <4>1
    <3>4. QED  BY <3>1, <3>2, <3>3
  <2>5. QED  BY <2>3, <2>4
<1>5. rpc = "exited" \/ EndRead \/ StartReader
  BY <1>1, Steps DEF Update, Remove, Delete, Callbacks, Callback, Elsewhere,
     UpdateFails,
     CallRcuOld, StartWriter, Ready, BeginRead, Walk, Rmmod, StopReader, vars, reader
<1>6. QED  BY <1>2, <1>3, <1>4, <1>5

LEMMA MapSteps ==
  ASSUME MapInv, [Next]_vars
  PROVE  MapInv'
  BY ListStep, TypesStep, NodesStep, GraceStep, WalkStep, WriterStep DEF MapInv

LEMMA MapInvariance == Spec => []MapInv
<1>1. Init => MapInv  BY MapInitially
<1>2. MapInv /\ [Next]_vars => MapInv'  BY MapSteps
<1>3. QED  BY <1>1, <1>2, PTL DEF Spec

\* The cursor of get_ccmap_rcu is on memory that is not freed, for every number of keys,
\* nodes and update rounds: _ccmap_cb frees a node only when no section that could have
\* reached it is open.
THEOREM CursorIsLive == Spec => []ReaderOnLiveNode
<1>1. MapInv => ReaderOnLiveNode
  <2>1. ASSUME MapInv, n # End PROVE n \in alloc
    <3>1. rpc = "walk" /\ n \in Addr  BY <2>1 DEF MapInv, GraceInv, MapTypes
    <3>2. Protected(n)  BY <2>1, <3>1 DEF MapInv, WalkInv, Section
    <3>3. QED  BY <2>1, <3>1, <3>2 DEF MapInv, NodeInv, Protected
  <2>2. QED  BY <2>1 DEF ReaderOnLiveNode
<1>2. QED  BY <1>1, MapInvariance, PTL

\* get_ccmap_rcu returns a value its key had while the section was open, whatever
\* update_ccmap and remove_ccmap do to the bucket meanwhile, and task_reader's sum is 0
\* only when task_writer has removed every key.
THEOREM ReadsAreCurrent == ASSUME SomeKeyIsStored PROVE Spec => []ReadIsCurrent
<1>1. ASSUME MapInv, DoneInv PROVE ReadIsCurrent
  <2>2. MapTypes /\ ListInv /\ NodeInv /\ WalkInv /\ DoneInv  BY <1>1 DEF MapInv
  <2>3. ASSUME rpc = "walk"
        PROVE  /\ n = End => Missing \in seen
               /\ n # End /\ key[n] = ri => value[n] \in seen
    <3>1. PICK V \in SUBSET Addr : /\ Section(V)
                                   /\ Missing \notin seen => \E T \in SUBSET V : Ahead(T)
      BY <2>2, <2>3 DEF WalkInv
    <3>2. \A T \in SUBSET V : Ahead(T) => n # End  BY EndIsNoNode DEF Ahead
    <3>3. QED  BY <3>1, <3>2 DEF Section
  <2>4. ASSUME rpc = "exited", NEW h \in Heads PROVE first[h] = End
    <3>1. \A a \in on[h] : a \in Addr /\ key[a] \in Keys /\ Holds(key[a])
      BY <2>2 DEF ListInv, ListTypes, MapTypes, Holds, OnList
    <3>2. \A a : a \notin on[h]  BY <2>2, <2>4, <3>1 DEF DoneInv
    <3>3. QED  BY <2>2, <3>2 DEF ListInv, Linked
  <2>5. QED  BY <2>3, <2>4 DEF ReadIsCurrent
<1>2. MapInv /\ SumInv /\ DoneInv /\ [Next]_vars => SumInv' /\ DoneInv'
  BY SumStep, DoneStep DEF MapInv
<1>3. Init => SumInv /\ DoneInv  BY MapInitially
<1>4. MapInv /\ DoneInv => ReadIsCurrent  BY <1>1
<1>5. QED  BY <1>2, <1>3, <1>4, MapInvariance, PTL DEF Spec

\* Every allocated node is on the intact list of its key's bucket, or retired, or in the
\* hands of the writer between the unlock and call_rcu; no two nodes of a bucket have
\* one key.
THEOREM NothingLeaks == Spec => []NoLeak
<1>1. MapInv => NoLeak
  <2>1. SUFFICES ASSUME MapInv PROVE NoLeak  BY Zenon
  <2>2. MapTypes /\ ListInv /\ NodeInv /\ (\A h \in Heads : on[h] \subseteq Addr)
    BY <2>1 DEF MapInv, ListInv, ListTypes
  <2>3. \A h \in Heads : ChainSound(h)  BY <2>2, LinkedIsSound DEF ListInv
  <2>4. alloc = (UNION {on[h] : h \in Heads}) \union retired
                \union (IF old_n = End THEN {} ELSE {old_n})
    <3>1. \A a : a \in UNION {on[h] : h \in Heads} <=> OnList(a)  BY DEF OnList
    <3>2. \A a : OnList(a) => a \in Addr  BY <2>2 DEF OnList
    <3>3. alloc \subseteq Addr /\ retired \subseteq Addr /\ old_n \in Addr \union {End}
      BY <2>2 DEF MapTypes
    <3>4. \A a \in Addr : a \in alloc <=> OnList(a) \/ a \in retired \/ a = old_n
      BY <2>2 DEF NodeInv
    <3>5. \A a : a \in alloc <=> OnList(a) \/ a \in retired \/ (old_n # End /\ a = old_n)
      BY <3>2, <3>3, <3>4, EndIsNoNode
    <3>6. QED  BY <3>1, <3>5, SMT
  <2>5. \A h \in Heads : \A a \in on[h] :
          /\ a \notin retired /\ HashOf[key[a]] = h
          /\ \A c \in on[h] : key[c] = key[a] => c = a
    BY <2>2 DEF NodeInv, OnList
  <2>6. QED  BY <2>3, <2>4, <2>5 DEF NoLeak
<1>2. QED  BY <1>1, MapInvariance, PTL
=============================================================================
