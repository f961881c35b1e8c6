---------------------------- MODULE KeyboardProofs ----------------------------
(***************************************************************************)
(* The ring of keys, for every size of the ring and every number of        *)
(* processes: what an overrun may destroy.                                 *)
(***************************************************************************)
EXTENDS Keyboard, SequenceTheorems, TLAPS

Positions == 0 .. W - 1

\* A key that waits came in one of the last W pushes, and head has not passed
\* the position it came at.
Fresh(p) ==
  \A s \in Positions :
    buffer[p][s] # Zero =>
      \E k \in Nat : head[p] <= k /\ tail[p] - W <= k /\ k < tail[p] /\ Slot(k) = s

IInv == TypeOK /\ \A p \in Processes : head[p] <= tail[p] /\ Fresh(p)

\* Among W positions in a row no two share a slot (keyboard.c:40-43).
LEMMA SlotsApart ==
  ASSUME NEW i \in Nat, NEW k \in Nat, Slot(i) = Slot(k), k - W < i, i <= k
  PROVE  i = k
  <1> DEFINE q == i \div W
             r == k \div W
  <1>1. q \in Int /\ i = W * q + (i % W)
    BY KeyboardConstants
  <1>2. r \in Int /\ k = W * r + (k % W)
    BY KeyboardConstants
  <1>3. i % W \in Int /\ k % W \in Int /\ i % W = k % W
    BY KeyboardConstants DEF Slot
  <1> HIDE DEF q, r
  <1>4. k - i = W * r - W * q /\ W * r \in Int /\ W * q \in Int
    BY <1>1, <1>2, <1>3, KeyboardConstants
  <1>5. W * r - W * q = W * (r - q)
    BY <1>1, <1>2, KeyboardConstants
  <1>6. ~ (r - q >= 1)
    BY <1>1, <1>2, <1>4, <1>5, KeyboardConstants
  <1>7. ~ (r - q <= -1)
    BY <1>1, <1>2, <1>4, <1>5, KeyboardConstants
  <1>8. r = q
    BY <1>1, <1>2, <1>6, <1>7
  <1> QED BY <1>4, <1>8, KeyboardConstants

\* W positions on, the slot is the same again.
LEMMA SlotRepeats ==
  ASSUME NEW i \in Nat, i - W \in Nat
  PROVE  Slot(i - W) = Slot(i)
  <1> DEFINE q == i \div W
             r == (i - W) \div W
             d == (i % W) - ((i - W) % W)
  <1>1. /\ q \in Int /\ r \in Int /\ d \in Int
        /\ i = W * q + (i % W) /\ i - W = W * r + ((i - W) % W)
        /\ i % W \in 0 .. W - 1 /\ (i - W) % W \in 0 .. W - 1
    BY KeyboardConstants
  <1>2. -W < d /\ d < W
    BY <1>1, KeyboardConstants
  <1> HIDE DEF q, r
  <1>3. W * q \in Int /\ W * r \in Int /\ W * q - W * r = W - d
    BY <1>1, KeyboardConstants
  <1>4. W * (q - r - 1) = W * q - W * r - W
    BY <1>1, KeyboardConstants
  <1>5. W * (q - r - 1) = 0 - d /\ q - r - 1 \in Int
    BY <1>1, <1>3, <1>4, KeyboardConstants
  <1>6. ~ (q - r - 1 >= 1) /\ ~ (q - r - 1 <= -1)
    BY <1>1, <1>2, <1>5, KeyboardConstants
  <1>7. d = 0
    BY <1>1, <1>5, <1>6, KeyboardConstants
  <1> QED BY <1>1, <1>7 DEF Slot

LEMMA SlotInRing == ASSUME NEW i \in Nat PROVE Slot(i) \in Positions
  BY KeyboardConstants DEF Slot, Positions

------------------------------------------------------------------------------
(* The steps.                                                                *)

LEMMA PushIInv ==
  ASSUME IInv, NEW q \in Processes, NEW c \in Chars, Push(q, c)
  PROVE  /\ buffer' \in [Processes -> [Positions -> Chars \cup {Zero}]]
         /\ head' \in [Processes -> 0 .. MaxTyped] /\ tail' \in [Processes -> 0 .. MaxTyped]
         /\ overrun' \subseteq Processes
         /\ \A p \in Processes : head'[p] <= tail'[p] /\ Fresh(p)'
  <1>1. Slot(tail[q]) \in Positions /\ tail[q] \in Nat
    BY SlotInRing, KeyboardConstants DEF IInv, TypeOK
  <1>2. /\ buffer' \in [Processes -> [Positions -> Chars \cup {Zero}]]
        /\ head' \in [Processes -> 0 .. MaxTyped] /\ tail' \in [Processes -> 0 .. MaxTyped]
    BY <1>1, KeyboardConstants DEF IInv, TypeOK, Push, Positions
  <1>3. ASSUME NEW p \in Processes PROVE head'[p] <= tail'[p]
    BY <1>1, KeyboardConstants DEF IInv, TypeOK, Push
  <1>4. ASSUME NEW p \in Processes, p # q PROVE Fresh(p)'
    BY <1>4 DEF IInv, TypeOK, Push, Fresh
  <1>5. ASSUME NEW s \in Positions, buffer'[q][s] # Zero
        PROVE  \E k \in Nat : head'[q] <= k /\ tail'[q] - W <= k /\ k < tail'[q] /\ Slot(k) = s
    <2> tail'[q] = tail[q] + 1 /\ head'[q] = head[q] /\ head[q] \in Nat /\ head[q] <= tail[q]
      BY KeyboardConstants DEF IInv, TypeOK, Push
    <2>1. CASE s = Slot(tail[q])
      BY <1>1, <2>1, KeyboardConstants
    <2>2. CASE s # Slot(tail[q])
      <3>1. buffer[q][s] # Zero
        BY <1>5, <2>2 DEF IInv, TypeOK, Push, Positions
      <3>2. PICK k \in Nat : head[q] <= k /\ tail[q] - W <= k /\ k < tail[q] /\ Slot(k) = s
        BY <3>1 DEF IInv, Fresh
      <3>3. k # tail[q] - W
        \* Otherwise s would be the slot just written.
        BY <1>1, <2>2, <3>2, SlotRepeats
      <3> QED BY <1>1, <3>2, <3>3, KeyboardConstants
    <2> QED BY <2>1, <2>2
  <1>6. overrun' \subseteq Processes
    BY DEF IInv, TypeOK, Push
  <1> QED BY <1>2, <1>3, <1>4, <1>5, <1>6 DEF Fresh

LEMMA PopIInv ==
  ASSUME IInv, NEW q \in Processes, Pop(q)
  PROVE  /\ buffer' \in [Processes -> [Positions -> Chars \cup {Zero}]]
         /\ head' \in [Processes -> 0 .. MaxTyped] /\ tail' \in [Processes -> 0 .. MaxTyped]
         /\ got' \in Chars \cup {Zero}
         /\ \A p \in Processes : head'[p] <= tail'[p] /\ Fresh(p)'
  <1>1. /\ head[q] \in Nat /\ tail[q] \in Nat /\ head[q] <= tail[q] /\ tail[q] <= MaxTyped
        /\ Slot(head[q]) \in Positions
    BY SlotInRing, KeyboardConstants DEF IInv, TypeOK
  <1>2. got' \in Chars \cup {Zero}
    <2>1. got' = buffer[q][Slot(head[q])]
      BY DEF Pop
    <2>2. buffer[q] \in [Positions -> Chars \cup {Zero}]
      BY DEF IInv, TypeOK, Positions
    <2> QED BY <1>1, <2>1, <2>2
  <1>3. CASE buffer[q][Slot(head[q])] = Zero
    BY <1>2, <1>3 DEF IInv, TypeOK, Pop, Positions, Fresh, ring
  <1>4. CASE buffer[q][Slot(head[q])] # Zero
    <2> /\ buffer' = [buffer EXCEPT ![q][Slot(head[q])] = Zero]
        /\ head' = [head EXCEPT ![q] = @ + 1] /\ tail' = tail
      BY <1>4 DEF Pop
    <2>1. head[q] < tail[q]
      <3>1. PICK k \in Nat : head[q] <= k /\ k < tail[q]
        BY <1>1, <1>4 DEF IInv, Fresh
      <3> QED BY <1>1, <3>1
    <2>2. buffer' \in [Processes -> [Positions -> Chars \cup {Zero}]]
      BY <1>1 DEF IInv, TypeOK, Positions
    <2>3. head' \in [Processes -> 0 .. MaxTyped] /\ tail' \in [Processes -> 0 .. MaxTyped]
      BY <1>1, <2>1, KeyboardConstants DEF IInv, TypeOK
    <2>4. ASSUME NEW p \in Processes PROVE head'[p] <= tail'[p]
      BY <1>1, <2>1, KeyboardConstants DEF IInv, TypeOK
    <2>5. ASSUME NEW p \in Processes, p # q PROVE Fresh(p)'
      BY <2>5 DEF IInv, TypeOK, Fresh
    <2>6. ASSUME NEW s \in Positions, buffer'[q][s] # Zero
          PROVE  \E k \in Nat : head'[q] <= k /\ tail'[q] - W <= k /\ k < tail'[q] /\ Slot(k) = s
      <3>1. s # Slot(head[q]) /\ buffer[q][s] # Zero
        BY <1>1, <2>6 DEF IInv, TypeOK, Positions
      <3>2. PICK k \in Nat : head[q] <= k /\ tail[q] - W <= k /\ k < tail[q] /\ Slot(k) = s
        BY <3>1 DEF IInv, Fresh
      <3>3. k # head[q]
        BY <3>1, <3>2
      <3>4. head'[q] = head[q] + 1 /\ tail'[q] = tail[q]
        BY DEF IInv, TypeOK
      <3> QED BY <1>1, <3>2, <3>3, <3>4
    <2> QED BY <1>2, <2>2, <2>3, <2>4, <2>5, <2>6 DEF Fresh
  <1> QED BY <1>3, <1>4

LEMMA InitIInv == Init => IInv
  <1> SUFFICES ASSUME Init PROVE IInv
    OBVIOUS
  <1> DEFINE empty == [i \in 0 .. W - 1 |-> Zero]
  <1>0. /\ empty \in [0 .. W - 1 -> Chars \cup {Zero}]
        /\ \A s \in Positions : empty[s] = Zero
    BY DEF Positions
  <1>1. buffer = [p \in Processes |-> empty]
    BY DEF Init
  <1> HIDE DEF empty
  <1>2. capslock \in BOOLEAN
    BY Zenon DEF Init
  <1>3. TypeOK
    <2>1. buffer \in [Processes -> [0 .. W - 1 -> Chars \cup {Zero}]]
      BY <1>0, <1>1
    <2>2. /\ head \in [Processes -> 0 .. MaxTyped]
          /\ tail \in [Processes -> 0 .. MaxTyped]
      BY KeyboardConstants DEF Init
    <2> QED BY <1>2, <2>1, <2>2, Zenon DEF Init, TypeOK
  <1>4. \A p \in Processes : head[p] <= tail[p] /\ Fresh(p)
    <2> TAKE p \in Processes
    <2>1. head[p] = 0 /\ tail[p] = 0
      BY DEF Init
    <2>2. \A s \in Positions : buffer[p][s] = Zero
      BY <1>0, <1>1
    <2> QED BY <2>1, <2>2 DEF Fresh
  <1> QED BY <1>3, <1>4 DEF IInv

LEMMA NextIInv == IInv /\ [Next]_vars => IInv'
  <1> SUFFICES ASSUME IInv, [Next]_vars PROVE IInv'
    OBVIOUS
  <1>1. CASE UNCHANGED vars
    BY <1>1 DEF IInv, TypeOK, Fresh, vars, ring
  <1>2. ASSUME NEW letter \in Letters, Press(letter) PROVE IInv'
    <2>1. Char(letter) \in Chars
      BY DEF Char, Chars, IInv, TypeOK
    <2> QED BY <1>2, <2>1, PushIInv DEF Press, IInv, TypeOK, Positions
  <1>3. CASE PressPastTable
    <2>1. ASSUME NEW c \in Chars, Push(foreground, c) PROVE IInv'
      BY <1>3, <2>1, PushIInv DEF PressPastTable, IInv, TypeOK, Positions
    <2>2. CASE UNCHANGED <<ring, overrun>>
      BY <1>3, <2>2 DEF PressPastTable, IInv, TypeOK, Fresh, ring
    <2> QED BY <1>3, <2>1, <2>2 DEF PressPastTable
  <1>4. CASE PressCapsLock
    BY <1>4 DEF PressCapsLock, IInv, TypeOK, Fresh, ring
  <1>5. CASE GetKey
    BY <1>5, PopIInv DEF GetKey, IInv, TypeOK, Positions
  <1>6. ASSUME NEW p \in Processes, Focus(p) \/ Switch(p) PROVE IInv'
    BY <1>6 DEF Focus, Switch, IInv, TypeOK, Fresh, ring
  <1>7. ASSUME NEW p \in Processes, Restart(p) PROVE IInv'
    <2>1. TypeOK'
      BY <1>7, KeyboardConstants DEF Restart, IInv, TypeOK
    <2>2. ASSUME NEW q \in Processes PROVE head'[q] <= tail'[q] /\ Fresh(q)'
      BY <1>7, KeyboardConstants DEF Restart, IInv, TypeOK, Fresh, Positions
    <2> QED BY <2>1, <2>2 DEF IInv
  <1> QED BY <1>1, <1>2, <1>3, <1>4, <1>5, <1>6, <1>7 DEF Next

------------------------------------------------------------------------------
(* Theorems.                                                                 *)

\* The inductive invariant holds of every ring (keyboard.c:62-98).
THEOREM RingInvariant == Spec => []IInv
  BY InitIInv, NextIInv, PTL DEF Spec

\* The rings stay within their types: head never runs away from tail, however
\* often the ring was overrun (keyboard.c:80-98).
THEOREM TypeCorrect == Spec => []TypeOK
  <1>1. IInv => TypeOK
    BY DEF IInv
  <1> QED BY <1>1, RingInvariant, PTL

\* A key is lost only when more keys wait than the ring holds, for every size of
\* the ring (keyboard.c:62-78).
THEOREM KeysLostOnlyWhenFull == Spec => []LosesOnlyWhenFull
  <1>1. IInv => LosesOnlyWhenFull
    <2> SUFFICES ASSUME IInv, NEW p \in Processes,
                        buffer[p][Slot(tail[p])] # Zero
                 PROVE  tail[p] - head[p] >= W
      BY DEF LosesOnlyWhenFull, IInv
    <2>1. tail[p] \in Nat /\ head[p] \in Nat /\ Slot(tail[p]) \in Positions
      BY SlotInRing, KeyboardConstants DEF IInv, TypeOK
    <2>2. PICK k \in Nat : /\ head[p] <= k /\ tail[p] - W <= k /\ k < tail[p]
                           /\ Slot(k) = Slot(tail[p])
      BY <2>1 DEF IInv, Fresh
    <2>3. k <= tail[p] - W
      BY <2>1, <2>2, SlotsApart, KeyboardConstants
    <2> QED BY <2>1, <2>2, <2>3, KeyboardConstants
  <1> QED BY <1>1, RingInvariant, PTL

------------------------------------------------------------------------------
(* The ring as a queue.  Until it is overrun, the positions from head to     *)
(* tail fit into the ring and each of their slots holds a key.               *)

Exact ==
  \A p \in Processes \ overrun :
    /\ tail[p] - head[p] <= W
    /\ \A k \in head[p] .. tail[p] - 1 : buffer[p][Slot(k)] # Zero

\* The keys of the slots b from position h to position t; c written into slot s.
NoGap(b, h, t) == \A k \in h .. t - 1 : b[Slot(k)] # Zero
Keys(b, h, t) == [i \in 1 .. t - h |-> b[Slot(h + i - 1)]]

Written(b, d, s, c) == d[s] = c /\ \A r \in Positions \ {s} : d[r] = b[r]

LEMMA KeysSeq ==
  ASSUME NEW b \in [Positions -> Chars \cup {Zero}], NEW h \in Nat, NEW t \in Nat, h <= t,
         NoGap(b, h, t)
  PROVE  /\ Keys(b, h, t) \in Seq(Chars)
         /\ Len(Keys(b, h, t)) = t - h
         /\ \A i \in 1 .. t - h : Keys(b, h, t)[i] = b[Slot(h + i - 1)]
  <1> USE DEF NoGap
  <1>1. ASSUME NEW i \in 1 .. t - h PROVE b[Slot(h + i - 1)] \in Chars
    <2>1. h + i - 1 \in Nat /\ h + i - 1 \in h .. t - 1
      OBVIOUS
    <2>2. Slot(h + i - 1) \in Positions /\ b[Slot(h + i - 1)] # Zero
      BY <2>1, SlotInRing
    <2> QED BY <2>2
  <1>2. Keys(b, h, t) \in [1 .. t - h -> Chars]
    BY <1>1 DEF Keys
  <1>3. t - h \in Nat
    OBVIOUS
  <1> QED BY <1>2, <1>3 DEF Keys

\* A key written at tail comes last (keyboard.c:62-78).
LEMMA KeysAppend ==
  ASSUME NEW b \in [Positions -> Chars \cup {Zero}], NEW h \in Nat, NEW t \in Nat, h <= t,
         NoGap(b, h, t),
         t - h < W, NEW c \in Chars, NEW d \in [Positions -> Chars \cup {Zero}],
         Written(b, d, Slot(t), c)
  PROVE  /\ Keys(d, h, t + 1) = Append(Keys(b, h, t), c)
         /\ NoGap(d, h, t + 1)
  <1> USE DEF NoGap, Written
  <1>1. Slot(t) \in Positions /\ c # Zero /\ d \in [Positions -> Chars \cup {Zero}]
    BY SlotInRing, KeyboardConstants DEF Chars
  <1>2. d[Slot(t)] = c
    BY <1>1
  <1>3. ASSUME NEW k \in h .. t - 1 PROVE d[Slot(k)] = b[Slot(k)]
    <2>1. k \in Nat /\ t - W < k /\ k <= t /\ k # t
      BY KeyboardConstants
    <2>2. Slot(k) # Slot(t) /\ Slot(k) \in Positions
      BY <2>1, SlotsApart, SlotInRing
    <2> QED BY <2>2
  <1>4. ASSUME NEW k \in h .. t PROVE d[Slot(k)] # Zero
    <2>1. CASE k = t
      BY <1>1, <1>2, <2>1
    <2>2. CASE k # t
      BY <1>3, <2>2
    <2> QED BY <2>1, <2>2
  <1>5. /\ Keys(b, h, t) \in Seq(Chars) /\ Len(Keys(b, h, t)) = t - h
        /\ \A i \in 1 .. t - h : Keys(b, h, t)[i] = b[Slot(h + i - 1)]
    BY KeysSeq
  <1>6. /\ Keys(d, h, t + 1) \in Seq(Chars) /\ Len(Keys(d, h, t + 1)) = t + 1 - h
        /\ \A i \in 1 .. t + 1 - h : Keys(d, h, t + 1)[i] = d[Slot(h + i - 1)]
    <2>1. t + 1 \in Nat /\ h <= t + 1
      OBVIOUS
    <2>2. \A k \in h .. (t + 1) - 1 : d[Slot(k)] # Zero
      BY <1>4
    <2> DEFINE u == t + 1
    <2>3. u \in Nat /\ h <= u /\ \A k \in h .. u - 1 : d[Slot(k)] # Zero
      BY <2>1, <2>2
    <2> HIDE DEF u
    <2>4. /\ Keys(d, h, u) \in Seq(Chars) /\ Len(Keys(d, h, u)) = u - h
          /\ \A i \in 1 .. u - h : Keys(d, h, u)[i] = d[Slot(h + i - 1)]
      BY <1>1, <2>3, KeysSeq
    <2> QED BY <2>4 DEF u
  <1>7. /\ Append(Keys(b, h, t), c) \in Seq(Chars)
        /\ Len(Append(Keys(b, h, t), c)) = t - h + 1
        /\ \A i \in 1 .. t - h : Append(Keys(b, h, t), c)[i] = Keys(b, h, t)[i]
        /\ Append(Keys(b, h, t), c)[t - h + 1] = c
    <2> DEFINE q == Keys(b, h, t)
    <2> HIDE DEF q
    <2>1. q \in Seq(Chars) /\ Len(q) = t - h /\ t - h \in Nat
      BY <1>5 DEF q
    <2>2. /\ Append(q, c) \in Seq(Chars) /\ Len(Append(q, c)) = Len(q) + 1
          /\ \A i \in 1 .. Len(q) : Append(q, c)[i] = q[i]
          /\ Append(q, c)[Len(q) + 1] = c
      BY <2>1, AppendProperties
    <2> QED BY <2>1, <2>2 DEF q
  <1>8. ASSUME NEW i \in 1 .. t + 1 - h
        PROVE  Keys(d, h, t + 1)[i] = Append(Keys(b, h, t), c)[i]
    <2>1. CASE i = t - h + 1
      <3>1. h + i - 1 = t
        BY <2>1
      <3> QED BY <1>2, <1>6, <1>7, <2>1, <3>1
    <2>2. CASE i # t - h + 1
      <3>1. i \in 1 .. t - h /\ h + i - 1 \in h .. t - 1
        BY <2>2
      <3> QED BY <1>3, <1>5, <1>6, <1>7, <3>1
    <2> QED BY <2>1, <2>2
  <1>9. Keys(d, h, t + 1) = Append(Keys(b, h, t), c)
    <2>1. Len(Keys(d, h, t + 1)) = Len(Append(Keys(b, h, t), c))
      BY <1>6, <1>7
    <2> QED BY <1>6, <1>7, <1>8, <2>1, SeqEqual
  <1> QED BY <1>4, <1>9

\* The key taken at head came first (keyboard.c:80-98).
LEMMA KeysTail ==
  ASSUME NEW b \in [Positions -> Chars \cup {Zero}], NEW h \in Nat, NEW t \in Nat, h < t,
         NoGap(b, h, t),
         t - h <= W, NEW d \in [Positions -> Chars \cup {Zero}],
         Written(b, d, Slot(h), Zero)
  PROVE  /\ Keys(b, h, t) # <<>>
         /\ Head(Keys(b, h, t)) = b[Slot(h)]
         /\ Tail(Keys(b, h, t)) = Keys(d, h + 1, t)
         /\ NoGap(d, h + 1, t)
  <1> USE DEF NoGap, Written
  <1> DEFINE q == Keys(b, h, t)
  <1>1. d \in [Positions -> Chars \cup {Zero}]
    BY SlotInRing
  <1>2. ASSUME NEW k \in h + 1 .. t - 1
        PROVE  d[Slot(k)] = b[Slot(k)] /\ d[Slot(k)] # Zero
    <2>1. k \in Nat /\ k - W < h /\ h <= k /\ k # h /\ k \in h .. t - 1
      BY KeyboardConstants
    <2>2. Slot(k) # Slot(h) /\ Slot(k) \in Positions /\ Slot(h) \in Positions
      BY <2>1, SlotsApart, SlotInRing
    <2> QED BY <2>1, <2>2
  <1>3. /\ q \in Seq(Chars) /\ Len(q) = t - h
        /\ \A i \in 1 .. t - h : q[i] = b[Slot(h + i - 1)]
    <2>1. h <= t
      OBVIOUS
    <2> QED BY <2>1, KeysSeq
  <1>4. /\ Keys(d, h + 1, t) \in Seq(Chars) /\ Len(Keys(d, h + 1, t)) = t - (h + 1)
        /\ \A i \in 1 .. t - (h + 1) : Keys(d, h + 1, t)[i] = d[Slot(h + 1 + i - 1)]
    <2> DEFINE u == h + 1
    <2>1. u \in Nat /\ u <= t /\ \A k \in u .. t - 1 : d[Slot(k)] # Zero
      BY <1>2
    <2> HIDE DEF u
    <2>2. /\ Keys(d, u, t) \in Seq(Chars) /\ Len(Keys(d, u, t)) = t - u
          /\ \A i \in 1 .. t - u : Keys(d, u, t)[i] = d[Slot(u + i - 1)]
      BY <2>1, KeysSeq
    <2> QED BY <2>2 DEF u
  <1> HIDE DEF q
  <1>5. q # <<>>
    BY <1>3, EmptySeq
  <1>6. Head(q) = b[Slot(h)]
    <2>1. Head(q) = q[1]
      BY <1>3, <1>5
    <2>2. 1 \in 1 .. t - h /\ h + 1 - 1 = h
      OBVIOUS
    <2> QED BY <1>3, <2>1, <2>2
  <1>7. /\ Tail(q) \in Seq(Chars) /\ Len(Tail(q)) = t - h - 1
        /\ \A i \in 1 .. t - h - 1 : Tail(q)[i] = q[i + 1]
    BY <1>3, <1>5, HeadTailProperties
  <1>8. ASSUME NEW i \in 1 .. t - h - 1 PROVE Tail(q)[i] = Keys(d, h + 1, t)[i]
    <2>1. /\ i + 1 \in 1 .. t - h /\ h + (i + 1) - 1 = h + i /\ h + 1 + i - 1 = h + i
          /\ h + i \in h + 1 .. t - 1 /\ i \in 1 .. t - (h + 1)
      OBVIOUS
    <2>2. Tail(q)[i] = b[Slot(h + i)]
      BY <1>3, <1>7, <2>1
    <2>3. Keys(d, h + 1, t)[i] = d[Slot(h + i)]
      BY <1>4, <2>1
    <2> QED BY <1>2, <2>1, <2>2, <2>3
  <1>9. Tail(q) = Keys(d, h + 1, t)
    <2>1. Len(Tail(q)) = Len(Keys(d, h + 1, t))
      BY <1>4, <1>7
    <2> QED BY <1>4, <1>7, <1>8, <2>1, SeqEqual
  <1> QED BY <1>2, <1>5, <1>6, <1>9 DEF q

\* What Exact says of one process, and its queue.
LEMMA RingIsQueue ==
  ASSUME IInv, Exact, NEW p \in Processes
  PROVE  /\ buffer[p] \in [Positions -> Chars \cup {Zero}]
         /\ head[p] \in Nat /\ tail[p] \in Nat /\ head[p] <= tail[p]
         /\ p \in overrun => Waiting(p) = <<>>
         /\ p \notin overrun =>
              /\ tail[p] - head[p] <= W
              /\ \A k \in head[p] .. tail[p] - 1 : buffer[p][Slot(k)] # Zero
              /\ Waiting(p) = Keys(buffer[p], head[p], tail[p])
              /\ Len(Waiting(p)) = tail[p] - head[p]
  <1>1. /\ buffer[p] \in [Positions -> Chars \cup {Zero}]
        /\ head[p] \in Nat /\ tail[p] \in Nat /\ head[p] <= tail[p]
    BY KeyboardConstants DEF IInv, TypeOK, Positions
  <1>2. ASSUME p \notin overrun
        PROVE  /\ tail[p] - head[p] <= W
               /\ \A k \in head[p] .. tail[p] - 1 : buffer[p][Slot(k)] # Zero
               /\ Waiting(p) = Keys(buffer[p], head[p], tail[p])
    BY <1>2 DEF Exact, Waiting, Keys
  <1>3. ASSUME p \notin overrun PROVE Len(Waiting(p)) = tail[p] - head[p]
    <2> DEFINE b == buffer[p]
               h == head[p]
               t == tail[p]
    <2>1. /\ b \in [Positions -> Chars \cup {Zero}] /\ h \in Nat /\ t \in Nat /\ h <= t
          /\ NoGap(b, h, t)
      BY <1>1, <1>2, <1>3 DEF NoGap
    <2> HIDE DEF b, h, t
    <2>2. Len(Keys(b, h, t)) = t - h
      BY <2>1, KeysSeq
    <2> QED BY <1>2, <1>3, <2>2 DEF b, h, t
  <1> QED BY <1>1, <1>2, <1>3 DEF Waiting

\* A key typed comes last in its queue, or garbles it when it is full
\* (keyboard.c:62-78).
LEMMA PushImplements ==
  ASSUME IInv, Exact, NEW q \in Processes, NEW c \in Chars, Push(q, c), got' = Idle
  PROVE  Exact' /\ KeyQueues!Next
  <1>1. /\ buffer[q] \in [Positions -> Chars \cup {Zero}]
        /\ head[q] \in Nat /\ tail[q] \in Nat /\ head[q] <= tail[q]
        /\ Slot(tail[q]) \in Positions
    BY RingIsQueue, SlotInRing
  <1>2. /\ buffer'[q] = [buffer[q] EXCEPT ![Slot(tail[q])] = c]
        /\ head'[q] = head[q] /\ tail'[q] = tail[q] + 1
    BY DEF Push, IInv, TypeOK
  <1>3. ASSUME NEW p \in Processes, p # q
        PROVE  /\ buffer'[p] = buffer[p] /\ head'[p] = head[p] /\ tail'[p] = tail[p]
               /\ p \in overrun' <=> p \in overrun
    BY <1>3 DEF Push, IInv, TypeOK
  <1>4. ASSUME NEW p \in Processes, p # q PROVE Waiting(p)' = Waiting(p)
    BY <1>3, <1>4 DEF Waiting
  <1>5. ASSUME NEW p \in Processes, p # q, p \notin overrun'
        PROVE  /\ tail'[p] - head'[p] <= W
               /\ \A k \in head'[p] .. tail'[p] - 1 : buffer'[p][Slot(k)] # Zero
    BY <1>3, <1>5 DEF Exact
  <1>6. CASE q \in overrun
    <2>1. overrun' = overrun
      BY <1>6 DEF Push
    <2>2. \A p \in Processes : Waiting(p)' = Waiting(p)
      BY <1>4, <1>6, <2>1 DEF Waiting
    <2>3. Exact'
      BY <1>5, <1>6, <2>1 DEF Exact
    <2>4. KeyQueues!Rest
      BY <2>1, <2>2 DEF KeyQueues!Rest
    <2> QED BY <2>3, <2>4 DEF KeyQueues!Next
  <1>7. CASE q \notin overrun /\ tail[q] - head[q] >= W
    <2>1. overrun' = overrun \cup {q}
      BY <1>7 DEF Push
    <2>2. Len(Waiting(q)) = W
      BY <1>1, <1>7, RingIsQueue, KeyboardConstants
    <2>3. Waiting(q)' = <<>>
      BY <2>1 DEF Waiting
    <2>4. Exact'
      BY <1>5, <2>1 DEF Exact
    <2>5. KeyQueues!TypeIntoFull(q)
      BY <1>4, <2>1, <2>2, <2>3 DEF KeyQueues!TypeIntoFull
    <2> QED BY <2>4, <2>5 DEF KeyQueues!Next
  <1>8. CASE q \notin overrun /\ ~ (tail[q] - head[q] >= W)
    <2>1. overrun' = overrun /\ tail[q] - head[q] < W
      BY <1>1, <1>8, KeyboardConstants DEF Push
    <2>2. /\ \A k \in head[q] .. tail[q] - 1 : buffer[q][Slot(k)] # Zero
          /\ Waiting(q) = Keys(buffer[q], head[q], tail[q])
          /\ Len(Waiting(q)) = tail[q] - head[q]
      BY <1>8, RingIsQueue
    <2>3. /\ Keys(buffer'[q], head[q], tail[q] + 1) = Append(Waiting(q), c)
          /\ \A k \in head[q] .. tail[q] : buffer'[q][Slot(k)] # Zero
      <3> DEFINE b == buffer[q]
                 h == head[q]
                 t == tail[q]
                 d == buffer'[q]
      <3>1. /\ b \in [Positions -> Chars \cup {Zero}] /\ h \in Nat /\ t \in Nat
            /\ h <= t /\ t - h < W /\ NoGap(b, h, t)
            /\ d \in [Positions -> Chars \cup {Zero}] /\ Written(b, d, Slot(t), c)
        BY <1>1, <1>2, <2>1, <2>2 DEF NoGap, Written
      <3> HIDE DEF b, h, t, d
      <3>2. /\ Keys(d, h, t + 1) = Append(Keys(b, h, t), c)
            /\ NoGap(d, h, t + 1)
        BY <3>1, KeysAppend
      <3>3. \A k \in h .. t : d[Slot(k)] # Zero
        BY <3>1, <3>2 DEF NoGap
      <3> QED BY <2>2, <3>2, <3>3 DEF b, h, t, d
    <2>4. Waiting(q)' = Append(Waiting(q), c)
      BY <1>2, <1>8, <2>1, <2>3 DEF Waiting, Keys
    <2>5. Exact'
      <3>1. tail'[q] - 1 = tail[q] /\ tail'[q] - head'[q] <= W
        BY <1>1, <1>2, <2>1, KeyboardConstants
      <3> QED BY <1>2, <1>5, <2>3, <3>1 DEF Exact
    <2>6. KeyQueues!Type(q, c)
      BY <1>4, <1>8, <2>1, <2>2, <2>4 DEF KeyQueues!Type
    <2> QED BY <2>5, <2>6 DEF KeyQueues!Next
  <1> QED BY <1>6, <1>7, <1>8

\* getkey takes the first key of the queue, or finds it empty
\* (keyboard.c:80-98).
LEMMA PopImplements ==
  ASSUME IInv, Exact, NEW q \in Processes, Pop(q), UNCHANGED overrun
  PROVE  Exact' /\ KeyQueues!Next
  <1>1. /\ buffer[q] \in [Positions -> Chars \cup {Zero}]
        /\ head[q] \in Nat /\ tail[q] \in Nat /\ head[q] <= tail[q]
        /\ Slot(head[q]) \in Positions
    BY RingIsQueue, SlotInRing
  <1>2. got' = buffer[q][Slot(head[q])] /\ got' \in Chars \cup {Zero}
    BY <1>1 DEF Pop
  <1>3. ASSUME NEW p \in Processes, p # q
        PROVE  buffer'[p] = buffer[p] /\ head'[p] = head[p] /\ tail'[p] = tail[p]
    BY <1>3 DEF Pop, IInv, TypeOK, ring
  <1>4. ASSUME NEW p \in Processes, p # q PROVE Waiting(p)' = Waiting(p)
    BY <1>3, <1>4 DEF Waiting
  <1>5. ASSUME NEW p \in Processes, p # q, p \notin overrun'
        PROVE  /\ tail'[p] - head'[p] <= W
               /\ \A k \in head'[p] .. tail'[p] - 1 : buffer'[p][Slot(k)] # Zero
    BY <1>3, <1>5 DEF Exact
  <1>6. CASE q \in overrun
    <2>1. \A p \in Processes : Waiting(p)' = Waiting(p)
      BY <1>4, <1>6 DEF Waiting
    <2>2. KeyQueues!ReadGarbled(q)
      BY <1>2, <1>6, <2>1 DEF KeyQueues!ReadGarbled
    <2>3. Exact'
      BY <1>5, <1>6 DEF Exact
    <2> QED BY <2>2, <2>3 DEF KeyQueues!Next
  <1>7. CASE q \notin overrun /\ head[q] = tail[q]
    <2>1. buffer[q][Slot(head[q])] = Zero
      BY <1>1, <1>7 DEF IInv, Fresh
    <2>2. UNCHANGED ring /\ got' = Zero
      BY <1>2, <2>1 DEF Pop
    <2>3. Waiting(q) = <<>>
      BY <1>1, <1>7, RingIsQueue, KeysSeq, EmptySeq
    <2>4. \A p \in Processes : Waiting(p)' = Waiting(p)
      BY <2>2 DEF Waiting, ring
    <2>5. KeyQueues!Read(q)
      BY <1>7, <2>2, <2>3, <2>4 DEF KeyQueues!Read
    <2>6. Exact'
      BY <2>2 DEF Exact, ring
    <2> QED BY <2>5, <2>6 DEF KeyQueues!Next
  <1>8. CASE q \notin overrun /\ head[q] # tail[q]
    <2>1. /\ tail[q] - head[q] <= W
          /\ \A k \in head[q] .. tail[q] - 1 : buffer[q][Slot(k)] # Zero
          /\ Waiting(q) = Keys(buffer[q], head[q], tail[q])
      BY <1>8, RingIsQueue
    <2>2. head[q] < tail[q] /\ buffer[q][Slot(head[q])] # Zero
      BY <1>1, <1>8, <2>1
    <2>3. /\ buffer'[q] = [buffer[q] EXCEPT ![Slot(head[q])] = Zero]
          /\ head'[q] = head[q] + 1 /\ tail'[q] = tail[q]
      BY <2>2 DEF Pop, IInv, TypeOK
    <2>4. /\ Waiting(q) # <<>> /\ Head(Waiting(q)) = got'
          /\ Tail(Waiting(q)) = Keys(buffer'[q], head[q] + 1, tail[q])
          /\ \A k \in head[q] + 1 .. tail[q] - 1 : buffer'[q][Slot(k)] # Zero
      <3> DEFINE b == buffer[q]
                 h == head[q]
                 t == tail[q]
                 d == buffer'[q]
      <3>1. /\ b \in [Positions -> Chars \cup {Zero}] /\ h \in Nat /\ t \in Nat
            /\ h < t /\ t - h <= W /\ NoGap(b, h, t)
            /\ d \in [Positions -> Chars \cup {Zero}] /\ Written(b, d, Slot(h), Zero)
        BY <1>1, <2>1, <2>2, <2>3 DEF NoGap, Written
      <3> HIDE DEF b, h, t, d
      <3>2. /\ Keys(b, h, t) # <<>> /\ Head(Keys(b, h, t)) = b[Slot(h)]
            /\ Tail(Keys(b, h, t)) = Keys(d, h + 1, t)
            /\ NoGap(d, h + 1, t)
        BY <3>1, KeysTail
      <3> QED BY <1>2, <2>1, <2>3, <3>2 DEF b, h, t, d, NoGap
    <2>5. Waiting(q)' = Tail(Waiting(q))
      BY <1>8, <2>3, <2>4 DEF Waiting, Keys
    <2>6. Exact'
      <3>1. tail'[q] - head'[q] <= W
        BY <1>1, <2>1, <2>3, KeyboardConstants
      <3> QED BY <1>5, <2>3, <2>4, <3>1 DEF Exact
    <2>7. KeyQueues!Read(q)
      BY <1>4, <1>8, <2>4, <2>5 DEF KeyQueues!Read
    <2> QED BY <2>6, <2>7 DEF KeyQueues!Next
  <1> QED BY <1>6, <1>7, <1>8

\* The next process in its place begins with an empty queue
\* (process.c:20-23).
LEMMA RestartImplements ==
  ASSUME IInv, Exact, NEW q \in Processes, Restart(q)
  PROVE  Exact' /\ KeyQueues!Next
  <1>1. /\ head'[q] = 0 /\ tail'[q] = 0 /\ q \notin overrun'
        /\ overrun' = overrun \ {q} /\ got' = Idle
    BY DEF Restart, IInv, TypeOK
  <1>2. ASSUME NEW p \in Processes, p # q
        PROVE  /\ buffer'[p] = buffer[p] /\ head'[p] = head[p] /\ tail'[p] = tail[p]
               /\ p \in overrun' <=> p \in overrun
    BY <1>2 DEF Restart, IInv, TypeOK
  <1>3. ASSUME NEW p \in Processes, p # q PROVE Waiting(p)' = Waiting(p)
    BY <1>2, <1>3 DEF Waiting
  <1>4. Waiting(q)' = <<>>
    <2>1. Waiting(q)' = [i \in 1 .. 0 |-> buffer'[q][Slot(0 + i - 1)]]
      BY <1>1 DEF Waiting
    <2> QED BY <2>1
  <1>5. Exact'
    <2>1. 0 - 0 <= W /\ 0 .. 0 - 1 = {}
      BY KeyboardConstants
    <2>2. ASSUME NEW p \in Processes, p \notin overrun'
          PROVE  /\ tail'[p] - head'[p] <= W
                 /\ \A k \in head'[p] .. tail'[p] - 1 : buffer'[p][Slot(k)] # Zero
      <3>1. CASE p = q
        BY <1>1, <2>1, <3>1
      <3>2. CASE p # q
        BY <1>2, <2>2, <3>2 DEF Exact
      <3> QED BY <3>1, <3>2
    <2> QED BY <2>2 DEF Exact
  <1>6. KeyQueues!Forget(q)
    BY <1>1, <1>3, <1>4 DEF KeyQueues!Forget
  <1> QED BY <1>5, <1>6 DEF KeyQueues!Next

LEMMA InitImplements == Init => Exact /\ KeyQueues!Init
  <1> SUFFICES ASSUME Init PROVE Exact /\ KeyQueues!Init
    OBVIOUS
  <1>1. \A p \in Processes : head[p] = 0 /\ tail[p] = 0 /\ p \notin overrun
    BY DEF Init
  <1>2. Exact
    <2>1. 0 - 0 <= W /\ 0 .. 0 - 1 = {}
      BY KeyboardConstants
    <2> QED BY <1>1, <2>1 DEF Exact
  <1>3. ASSUME NEW p \in Processes PROVE Waiting(p) = <<>>
    <2>1. Waiting(p) = [i \in 1 .. 0 |-> buffer[p][Slot(0 + i - 1)]]
      BY <1>1 DEF Waiting
    <2> QED BY <2>1
  <1>4. KeyQueues!Init
    BY <1>3 DEF KeyQueues!Init, Init
  <1> QED BY <1>2, <1>4

LEMMA NextImplements ==
  IInv /\ Exact /\ [Next]_vars
    => Exact' /\ [KeyQueues!Next]_<<[p \in Processes |-> Waiting(p)], overrun, got>>
  <1> SUFFICES ASSUME IInv, Exact, [Next]_vars
               PROVE  /\ Exact'
                      /\ \/ KeyQueues!Next
                         \/ UNCHANGED <<[p \in Processes |-> Waiting(p)], overrun, got>>
    OBVIOUS
  <1>1. ASSUME UNCHANGED <<ring, overrun>>
        PROVE  Exact' /\ \A p \in Processes : Waiting(p)' = Waiting(p)
    BY <1>1 DEF Exact, Waiting, ring
  <1>2. ASSUME UNCHANGED <<ring, overrun>>, got' = Idle PROVE Exact' /\ KeyQueues!Next
    <2>1. KeyQueues!Rest
      BY <1>1, <1>2 DEF KeyQueues!Rest
    <2> QED BY <1>1, <1>2, <2>1 DEF KeyQueues!Next
  <1>3. CASE UNCHANGED vars
    <2>1. UNCHANGED <<ring, overrun>> /\ UNCHANGED got
      BY <1>3 DEF vars
    <2> QED BY <1>1, <2>1
  <1>4. ASSUME NEW letter \in Letters, Press(letter) PROVE Exact' /\ KeyQueues!Next
    <2>1. Char(letter) \in Chars /\ foreground \in Processes
      BY DEF Char, Chars, IInv, TypeOK
    <2> QED BY <1>4, <2>1, PushImplements DEF Press
  <1>5. CASE PressPastTable
    <2>1. foreground \in Processes
      BY DEF IInv, TypeOK
    <2>2. ASSUME NEW c \in Chars, Push(foreground, c) PROVE Exact' /\ KeyQueues!Next
      BY <1>5, <2>1, <2>2, PushImplements DEF PressPastTable
    <2>3. CASE UNCHANGED <<ring, overrun>>
      BY <1>2, <1>5, <2>3 DEF PressPastTable
    <2> QED BY <1>5, <2>2, <2>3 DEF PressPastTable
  <1>6. CASE PressCapsLock
    BY <1>2, <1>6 DEF PressCapsLock
  <1>7. CASE GetKey
    <2>1. running \in Processes
      BY DEF IInv, TypeOK
    <2> QED BY <1>7, <2>1, PopImplements DEF GetKey
  <1>8. ASSUME NEW p \in Processes, Focus(p) \/ Switch(p) PROVE Exact' /\ KeyQueues!Next
    BY <1>2, <1>8 DEF Focus, Switch
  <1>9. ASSUME NEW p \in Processes, Restart(p) PROVE Exact' /\ KeyQueues!Next
    BY <1>9, RestartImplements
  <1> QED BY <1>3, <1>4, <1>5, <1>6, <1>7, <1>8, <1>9 DEF Next

\* Until its ring is overrun a process reads its own keys, all of them, once and
\* in the order they were typed, and zero only when there is none: the rings
\* implement the queues, for every number of processes and every size of the
\* ring (keyboard.c:62-98).
THEOREM RingImplementsQueue == Spec => ImplementsKeyQueue
  BY InitIInv, NextIInv, InitImplements, NextImplements, PTL
     DEF Spec, ImplementsKeyQueue, KeyQueues!Spec

=============================================================================
