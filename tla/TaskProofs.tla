----------------------------- MODULE TaskProofs -----------------------------
(***************************************************************************)
(* Proofs about Task, for any set of cells.                                *)
(***************************************************************************)
EXTENDS TaskRefinement, Loops, FiniteSetTheorems, SequenceTheorems

------------------------------------------------------------------------------
(* The inductive invariant.                                                  *)

\* The ghost older orders the live tasks totally.
CreationOrder ==
  /\ \A a \in live : <<a, a>> \notin older
  /\ \A a, b \in live : a # b => <<a, b>> \in older \/ <<b, a>> \in older
  /\ \A a, b, c \in live : <<a, b>> \in older /\ <<b, c>> \in older => <<a, c>> \in older

\* The boot runs nothing, ends nothing, and keeps the first task current; from
\* then on a task runs, or nothing does.
PhaseOK ==
  /\ phase = "boot" => /\ ~harmed
                       /\ current_task = task_head
  /\ phase = "run" => current_task \in live

\* Only the first task of the list has a null prev.
NullPrevIsHead ==
  ~harmed => \A t \in live : prev[t] = Null => t = task_head

IInv ==
  /\ Types /\ CreationOrder /\ PhaseOK /\ NullPrevIsHead
  /\ ListInOrder /\ RunsLiveTasks

------------------------------------------------------------------------------
(* Facts about the order.                                                    *)

LEMMA OrderFacts ==
  ASSUME IInv
  PROVE  /\ \A a \in live : ~ (<<a, a>> \in older)
         /\ \A a, b \in live : ~ (<<a, b>> \in older /\ <<b, a>> \in older)
         /\ \A a, b \in live : a # b => <<a, b>> \in older \/ <<b, a>> \in older
         /\ \A pair \in older : pair \in live \X live
         /\ \A a, b : <<a, b>> \in older => a \in live /\ b \in live
BY DEF IInv, CreationOrder, Types

\* What ListInOrder says of the words, in the form the steps use.
LEMMA ListFacts ==
  ASSUME IInv, ~harmed
  PROVE  /\ live # {} => task_head \in live /\ task_tail \in live
         /\ live = {} <=> task_head = Null
         /\ \A a \in live : next[a] = Null \/ next[a] \in live
         /\ \A a \in live : next[a] # Null => Follows(a, next[a])
         /\ \A a \in live : next[a] = Null => Youngest(a)
         /\ Null \notin live
<1>1. Null \notin live
  BY CellsAssumption DEF IInv, Types
<1>2. \A a \in live : next[a] # Null => Follows(a, next[a]) /\ next[a] \in live
  BY OrderFacts DEF IInv, ListInOrder, Follows
<1>3. QED
  BY <1>1, <1>2 DEF IInv, ListInOrder, Oldest, Youngest

\* The scheduler finds a live task behind every live task (task.c:27-35).
LEMMA GetNextLive ==
  ASSUME IInv, ~harmed, NEW t \in live
  PROVE  GetNext(next, task_head, t) \in live
BY ListFacts DEF GetNext

------------------------------------------------------------------------------
(* A task appended to the list: boot, commands 6 and 7.                      *)

LEMMA AppendKeepsOrder ==
  ASSUME IInv, NEW c \in Cells, c \notin live, Created(c)
  PROVE  /\ CreationOrder'
         /\ \A a \in live : <<a, c>> \in older'
         /\ \A a, b \in live : <<a, b>> \in older' <=> <<a, b>> \in older
         /\ \A a : ~ (<<c, a>> \in older')
         /\ live' \subseteq Cells /\ older' \subseteq live' \X live'
<1>1. older \subseteq live \X live /\ live \subseteq Cells
  BY DEF IInv, Types
<1>2. \A a \in live : <<a, c>> \in older'
  BY DEF Created
<1>3. \A a, b \in live : <<a, b>> \in older' <=> <<a, b>> \in older
  BY DEF Created
<1>4. \A a : ~ (<<c, a>> \in older')
  BY <1>1 DEF Created
<1>5. CreationOrder'
  BY <1>2, <1>3, <1>4 DEF IInv, CreationOrder, Created
<1>6. QED
  BY <1>1, <1>2, <1>3, <1>4, <1>5 DEF Created

LEMMA AppendKeepsList ==
  ASSUME IInv, NEW c \in Cells, c \notin live, Created(c), Enlist(c),
         ~harmed, harmed' = harmed
  PROVE  ListInOrder' /\ NullPrevIsHead'
<1>1. c # Null /\ Null \notin Cells
  BY CellsAssumption
<1>2. live' = live \cup {c}
  BY DEF Created
<1>3. /\ \A a \in live : <<a, c>> \in older'
      /\ \A a, b \in live : <<a, b>> \in older' <=> <<a, b>> \in older
      /\ \A a : ~ (<<c, a>> \in older')
  BY AppendKeepsOrder
<1>4. CASE live = {}
  <2>1. task_head = Null /\ task_head' = c /\ task_tail' = c
    BY <1>4, ListFacts DEF Enlist, AppendHead
  <2>2. next'[c] = Null
    BY <2>1 DEF IInv, Types, Enlist, AppendNext
  <2>3. QED
    BY <1>1, <1>2, <1>4, <2>1, <2>2
    DEF ListInOrder, NullPrevIsHead, Oldest, Youngest
<1>5. CASE live # {}
  <2>1. /\ task_head # Null /\ task_head \in live /\ task_tail \in live
        /\ task_head' = task_head /\ task_tail' = c
        /\ Oldest(task_head) /\ Youngest(task_tail)
    BY <1>5, ListFacts DEF Enlist, AppendHead, IInv, ListInOrder
  <2>2. /\ next'[c] = Null
        /\ next'[task_tail] = c
        /\ \A a \in live \ {task_tail} : next'[a] = next[a]
        /\ prev'[c] = task_tail
        /\ \A a \in live : prev'[a] = prev[a]
    BY <2>1 DEF IInv, Types, Enlist, AppendNext, AppendPrev
  <2>3. Oldest(task_head)'
    BY <1>2, <1>3, <2>1 DEF Oldest
  <2>4. Youngest(c)'
    BY <1>2, <1>3 DEF Youngest
  <2>5. /\ <<task_tail, c>> \in older'
        /\ \A e \in live' : ~ (<<task_tail, e>> \in older' /\ <<e, c>> \in older')
    <3>1. \A e \in live : <<task_tail, e>> \notin older
      BY <2>1, OrderFacts DEF Youngest
    <3>2. QED
      BY <1>2, <1>3, <2>1, <3>1
  <2>6. ASSUME NEW a \in live \ {task_tail}
        PROVE  /\ next'[a] # Null
               /\ <<a, next'[a]>> \in older'
               /\ \A e \in live' : ~ (<<a, e>> \in older' /\ <<e, next'[a]>> \in older')
    <3>1. ~Youngest(a)
      BY <2>1, OrderFacts DEF Youngest
    <3>2. next[a] \in live /\ Follows(a, next[a]) /\ next[a] # Null
      BY <3>1, ListFacts
    <3>3. next'[a] = next[a]
      BY <2>2
    <3>4. <<a, next[a]>> \in older'
      BY <1>3, <3>2 DEF Follows
    <3>5. ASSUME NEW e \in live', <<a, e>> \in older', <<e, next[a]>> \in older'
          PROVE  FALSE
      <4>1. e \in live
        BY <1>2, <1>3, <3>5
      <4>2. QED
        BY <1>3, <3>2, <3>5, <4>1 DEF Follows
    <3>6. QED
      BY <3>2, <3>3, <3>4, <3>5
  <2>7. ASSUME NEW a \in live'
        PROVE  IF next'[a] = Null THEN Youngest(a)' ELSE Follows(a, next[a])'
    <3>1. CASE a = c
      BY <2>2, <2>4, <3>1
    <3>2. CASE a = task_tail
      BY <1>1, <2>2, <2>5, <3>2 DEF Follows
    <3>3. CASE a \in live \ {task_tail}
      BY <2>6, <3>3 DEF Follows
    <3>4. QED
      BY <1>2, <3>1, <3>2, <3>3
  <2>8. ListInOrder'
    BY <1>2, <2>1, <2>3, <2>4, <2>7 DEF ListInOrder
  <2>9. NullPrevIsHead'
    <3>1. \A a \in live : prev[a] = Null => a = task_head
      BY DEF NullPrevIsHead, IInv
    <3>2. task_tail # Null
      BY <2>1, ListFacts
    <3>3. QED
      BY <1>2, <2>1, <2>2, <3>1, <3>2 DEF NullPrevIsHead
  <2>10. QED
    BY <2>8, <2>9
<1>6. QED
  BY <1>4, <1>5

------------------------------------------------------------------------------
(* A task taken out of the list: exit.  What PrevIsSound leaves are the task *)
(* at the head, and a task whose prev is the task in front.                  *)

\* The order of the tasks that stay.
LEMMA DestroyedKeepsOrder ==
  ASSUME IInv, NEW t \in live, Destroyed(t)
  PROVE  /\ CreationOrder'
         /\ live' = live \ {t}
         /\ \A a, b \in live' : <<a, b>> \in older' <=> <<a, b>> \in older
         /\ live' \subseteq Cells /\ older' \subseteq live' \X live'
<1>1. live' = live \ {t}
  BY DEF Destroyed
<1>2. older \subseteq live \X live /\ live \subseteq Cells
  BY DEF IInv, Types
<1>3. \A a, b \in live' : <<a, b>> \in older' <=> <<a, b>> \in older
  BY <1>1 DEF Destroyed
<1>4. older' \subseteq live' \X live'
  BY <1>1, <1>2 DEF Destroyed
<1>5. CreationOrder'
  BY <1>1, <1>3 DEF IInv, CreationOrder
<1>6. QED
  BY <1>1, <1>2, <1>3, <1>4, <1>5

\* The shape both cases of a sound removal give the words: those of the tasks
\* that stay pass over t, and the ends are the ends of what is left.
PassesOver(t) ==
  /\ task_head' \in live' /\ \A b \in live' \ {task_head'} : <<task_head', b>> \in older
  /\ task_tail' \in live' /\ \A b \in live' \ {task_tail'} : <<b, task_tail'>> \in older
  /\ \A a \in live' :
       \/ next'[a] = Null /\ \A b \in live' \ {a} : <<b, a>> \in older
       \/ /\ next'[a] \in live'
          /\ <<a, next'[a]>> \in older
          /\ \A c \in live' : ~ (<<a, c>> \in older /\ <<c, next'[a]>> \in older)

LEMMA PassesOverIsInOrder ==
  ASSUME IInv, NEW t \in live, Destroyed(t), PassesOver(t)
  PROVE  ListInOrder'
<1>1. /\ live' \subseteq Cells /\ Null \notin Cells
      /\ \A a, b \in live' : <<a, b>> \in older' <=> <<a, b>> \in older
  BY DestroyedKeepsOrder, CellsAssumption
<1>2. Oldest(task_head)' /\ Youngest(task_tail)'
  BY <1>1 DEF PassesOver, Oldest, Youngest
<1>3. ASSUME NEW a \in live'
      PROVE  IF next'[a] = Null THEN Youngest(a)' ELSE Follows(a, next[a])'
  <2>1. CASE next'[a] = Null
    <3>1. \A b \in live' \ {a} : <<b, a>> \in older
      BY <1>1, <2>1 DEF PassesOver
    <3>2. QED
      BY <1>1, <2>1, <3>1 DEF Youngest
  <2>2. CASE next'[a] # Null
    <3>1. /\ next'[a] \in live'
          /\ <<a, next'[a]>> \in older
          /\ \A c \in live' : ~ (<<a, c>> \in older /\ <<c, next'[a]>> \in older)
      BY <2>2 DEF PassesOver
    <3>2. QED
      BY <1>1, <2>2, <3>1 DEF Follows
  <2>3. QED
    BY <2>1, <2>2
<1>4. live' # {}
  BY DEF PassesOver
<1>5. QED
  BY <1>2, <1>3, <1>4 DEF ListInOrder

\* Taking out the head: the words of the others are left alone.
LEMMA RemoveOldest ==
  ASSUME IInv, ~harmed, NEW t \in live, t = task_head, live # {t},
         prev[t] \notin live, Destroyed(t),
         next' = RemoveNext(next, prev, t),
         task_head' = RemoveHead(next, prev, task_head, t),
         task_tail' = RemoveTail(prev, task_tail, t)
  PROVE  PassesOver(t)
<1>1. live' = live \ {t}
  BY DEF Destroyed
<1>2. \A a \in live : next'[a] = next[a]
  BY DEF IInv, Types, RemoveNext
<1>3. Oldest(t) /\ ~Youngest(t)
  <2>1. Oldest(t)
    BY DEF IInv, ListInOrder
  <2>2. PICK b \in live : b # t
    OBVIOUS
  <2>3. <<t, b>> \in older
    BY <2>1, <2>2 DEF Oldest
  <2>4. ~ (<<b, t>> \in older)
    BY <2>3, OrderFacts
  <2>5. QED
    BY <2>1, <2>2, <2>4 DEF Youngest
<1>4. next[t] \in live' /\ Follows(t, next[t])
  BY <1>1, <1>3, ListFacts, OrderFacts DEF Follows
<1>5. task_head' = next[t] /\ task_tail' = task_tail /\ Youngest(task_tail)
  BY <1>2, <1>3 DEF RemoveHead, RemoveTail, IInv, ListInOrder
<1>6. \A b \in live' \ {next[t]} : <<next[t], b>> \in older
  BY <1>1, <1>3, <1>4, OrderFacts DEF Oldest, Follows
<1>7. \A b \in live' \ {task_tail} : <<b, task_tail>> \in older
  BY <1>1, <1>5 DEF Youngest
<1>8. task_tail \in live'
  BY <1>1, <1>3, <1>5 DEF Youngest
<1>9. ASSUME NEW a \in live'
      PROVE  \/ next[a] = Null /\ \A b \in live' \ {a} : <<b, a>> \in older
             \/ /\ next[a] \in live'
                /\ <<a, next[a]>> \in older
                /\ \A c \in live' : ~ (<<a, c>> \in older /\ <<c, next[a]>> \in older)
  <2>1. CASE next[a] = Null
    BY <1>1, <2>1, ListFacts DEF Youngest
  <2>2. CASE next[a] # Null
    <3>1. next[a] \in live /\ Follows(a, next[a])
      BY <1>1, <2>2, ListFacts
    <3>2. next[a] # t
      BY <1>1, <1>3, <3>1, OrderFacts DEF Oldest, Follows
    <3>3. QED
      BY <1>1, <3>1, <3>2 DEF Follows
  <2>3. QED
    BY <2>1, <2>2
<1>10. QED
  BY <1>1, <1>2, <1>4, <1>5, <1>6, <1>7, <1>8, <1>9 DEF PassesOver

\* Taking out a task whose prev is the task in front of it: that one passes
\* over it.
LEMMA RemoveFollower ==
  ASSUME IInv, ~harmed, NEW t \in live, live # {t},
         prev[t] \in live, next[prev[t]] = t, Destroyed(t),
         next' = RemoveNext(next, prev, t),
         task_head' = RemoveHead(next, prev, task_head, t),
         task_tail' = RemoveTail(prev, task_tail, t)
  PROVE  PassesOver(t)
<1> DEFINE p == prev[t]
<1>1. live' = live \ {t}
  BY DEF Destroyed
<1>2. t # Null /\ p # Null
  BY ListFacts
<1>3. Follows(p, t)
  BY <1>2, ListFacts
<1>4. p \in live' /\ p # t /\ <<p, t>> \in older
  BY <1>1, <1>3, OrderFacts DEF Follows
<1>5. next'[p] = next[t] /\ \A a \in live \ {p} : next'[a] = next[a]
  BY <1>2 DEF IInv, Types, RemoveNext
<1>6. /\ t # task_head /\ task_head' = task_head /\ task_head \in live'
      /\ \A b \in live' \ {task_head} : <<task_head, b>> \in older
  <2>1. Oldest(task_head)
    BY DEF IInv, ListInOrder
  <2>2. t # task_head
    BY <1>4, <2>1, OrderFacts DEF Oldest
  <2>3. QED
    BY <1>1, <2>1, <2>2 DEF Oldest, RemoveHead
<1>7. ASSUME Youngest(t) PROVE next[t] = Null /\ \A b \in live' \ {p} : <<b, p>> \in older
  <2>1. ASSUME NEW b \in live' \ {p} PROVE <<b, p>> \in older
    <3>1. <<b, t>> \in older
      BY <1>1, <1>7, <2>1 DEF Youngest
    <3>2. ~ (<<p, b>> \in older)
      BY <1>1, <1>3, <2>1, <3>1 DEF Follows
    <3>3. QED
      BY <1>1, <1>4, <2>1, <3>2, OrderFacts
  <2>2. ASSUME next[t] # Null PROVE FALSE
    <3>1. Follows(t, next[t]) /\ next[t] \in live
      BY <2>2, ListFacts
    <3>2. <<t, next[t]>> \in older /\ next[t] # t
      BY <3>1, OrderFacts DEF Follows
    <3>3. <<next[t], t>> \in older
      BY <1>7, <3>1, <3>2 DEF Youngest
    <3>4. QED
      BY <3>2, <3>3, OrderFacts
  <2>3. QED
    BY <2>1, <2>2
<1>8. /\ task_tail' \in live'
      /\ \A b \in live' \ {task_tail'} : <<b, task_tail'>> \in older
  <2>1. Youngest(task_tail)
    BY DEF IInv, ListInOrder
  <2>2. CASE t = task_tail
    BY <1>4, <1>7, <2>1, <2>2 DEF RemoveTail
  <2>3. CASE t # task_tail
    BY <1>1, <2>1, <2>3 DEF Youngest, RemoveTail
  <2>4. QED
    BY <2>2, <2>3
<1>9. \/ next'[p] = Null /\ \A b \in live' \ {p} : <<b, p>> \in older
      \/ /\ next'[p] \in live'
         /\ <<p, next'[p]>> \in older
         /\ \A c \in live' : ~ (<<p, c>> \in older /\ <<c, next'[p]>> \in older)
  <2>1. CASE next[t] = Null
    BY <1>5, <1>7, <2>1, ListFacts
  <2>2. CASE next[t] # Null
    <3> DEFINE u == next[t]
    <3>1. u \in live /\ Follows(t, u)
      BY <2>2, ListFacts
    <3>2. <<t, u>> \in older /\ u # t
      BY <3>1, OrderFacts DEF Follows
    <3>3. <<p, u>> \in older
      BY <1>4, <3>1, <3>2 DEF IInv, CreationOrder
    <3>4. ASSUME NEW c \in live', <<p, c>> \in older, <<c, u>> \in older PROVE FALSE
      <4>1. c \in live /\ c # t
        BY <1>1
      <4>2. ~ (<<c, t>> \in older)
        BY <1>3, <3>4, <4>1 DEF Follows
      <4>3. <<t, c>> \in older
        BY <4>1, <4>2, OrderFacts
      <4>4. QED
        BY <3>1, <3>4, <4>1, <4>3 DEF Follows
    <3>5. QED
      BY <1>1, <1>5, <3>1, <3>2, <3>3, <3>4
  <2>3. QED
    BY <2>1, <2>2
<1>10. ASSUME NEW a \in live', a # p
       PROVE  \/ next'[a] = Null /\ \A b \in live' \ {a} : <<b, a>> \in older
              \/ /\ next'[a] \in live'
                 /\ <<a, next'[a]>> \in older
                 /\ \A c \in live' : ~ (<<a, c>> \in older /\ <<c, next'[a]>> \in older)
  <2>1. a \in live /\ a # t /\ next'[a] = next[a]
    BY <1>1, <1>5, <1>10
  <2>2. CASE next[a] = Null
    BY <1>1, <2>1, <2>2, ListFacts DEF Youngest
  <2>3. CASE next[a] # Null
    <3>1. next[a] \in live /\ Follows(a, next[a])
      BY <2>1, <2>3, ListFacts
    <3>2. ASSUME next[a] = t PROVE FALSE
      <4>1. Follows(a, t)
        BY <3>1, <3>2
      <4>2. ~ (<<a, p>> \in older) /\ ~ (<<p, a>> \in older)
        BY <1>3, <1>4, <2>1, <4>1 DEF Follows
      <4>3. QED
        BY <1>10, <2>1, <4>2, OrderFacts
    <3>3. QED
      BY <1>1, <2>1, <3>1, <3>2 DEF Follows
  <2>4. QED
    BY <2>2, <2>3
<1>11. QED
  <2>1. \A a \in live' :
       \/ next'[a] = Null /\ \A b \in live' \ {a} : <<b, a>> \in older
       \/ /\ next'[a] \in live'
          /\ <<a, next'[a]>> \in older
          /\ \A c \in live' : ~ (<<a, c>> \in older /\ <<c, next'[a]>> \in older)
    BY <1>9, <1>10
  <2>2. QED
    BY <1>6, <1>8, <2>1 DEF PassesOver

\* After a sound removal the list passes over the task, and both steps along it
\* find a live task (task.c:52-55, isr80h/process.c:82-83).
LEMMA ExitRuns ==
  ASSUME IInv, Exit, ~harmed'
  PROVE  PassesOver(current_task) /\ phase' = "run"
<1> DEFINE t == current_task
<1> DEFINE a == GetNext(next', task_head', t)
<1> DEFINE b == GetNext(next', task_head', a)
<1>1. phase = "run" /\ t \in live /\ live # {t} /\ Destroyed(t)
  BY DEF Exit, IInv, PhaseOK
<1>2. /\ next' = RemoveNext(next, prev, t)
      /\ task_head' = RemoveHead(next, prev, task_head, t)
      /\ task_tail' = RemoveTail(prev, task_tail, t)
      /\ prev' = prev
      /\ harmed' = (harmed \/ ~PrevIsSound(t))
  BY DEF Exit
<1>3. \/ a = Null /\ current_task' = Null /\ phase' = "lost"
      \/ a # Null /\ Run(b, live')
  BY <1>2 DEF Exit
<1>4. live' = live \ {t} /\ live' \subseteq Cells
  BY <1>1, DestroyedKeepsOrder
<1>5. PassesOver(t) /\ next'[t] = next[t]
  <2>1. ~harmed /\ PrevIsSound(t)
    BY <1>2
  <2>2. Null \notin live
    BY <2>1, ListFacts
  <2>3. CASE prev[t] \in live /\ next[prev[t]] = t
    <3>1. prev[t] # t
      <4>1. Follows(prev[t], t)
        BY <1>1, <2>1, <2>2, <2>3, ListFacts
      <4>2. QED
        BY <1>1, <4>1, OrderFacts DEF Follows
    <3>2. next'[t] = next[t]
      BY <1>1, <1>2, <3>1 DEF IInv, Types, RemoveNext
    <3>3. QED
      BY <1>1, <1>2, <2>1, <2>3, <3>2, RemoveFollower
  <2>4. CASE prev[t] \notin live /\ t = task_head
    <3>1. next'[t] = next[t]
      BY <1>1, <1>2, <2>4 DEF IInv, Types, RemoveNext
    <3>2. QED
      BY <1>1, <1>2, <2>1, <2>4, <3>1, RemoveOldest
  <2>5. CASE prev[t] = Null
    <3>1. t = task_head
      BY <1>1, <2>1, <2>5 DEF IInv, NullPrevIsHead
    <3>2. QED
      BY <2>2, <2>4, <2>5, <3>1
  <2>6. QED
    BY <2>1, <2>3, <2>4, <2>5 DEF PrevIsSound
<1>6. phase' = "run"
  <2>1. ~harmed /\ PassesOver(t) /\ next'[t] = next[t]
    BY <1>2, <1>5
  <2>2. Null \notin live' /\ task_head' \in live'
    BY <1>4, <2>1, ListFacts DEF PassesOver
  <2>3. a \in live'
    <3>1. next[t] = Null \/ next[t] \in live'
      <4>1. next[t] # Null => next[t] \in live /\ Follows(t, next[t])
        BY <1>1, <2>1, ListFacts
      <4>2. QED
        BY <1>1, <1>4, <4>1, OrderFacts DEF Follows
    <3>2. QED
      BY <2>1, <2>2, <3>1 DEF GetNext
  <2>4. b \in live'
    BY <2>1, <2>2, <2>3 DEF GetNext, PassesOver
  <2>5. QED
    BY <1>3, <2>2, <2>3, <2>4 DEF Run
<1>7. QED
  BY <1>5, <1>6

\* exit, or an exception (isr80h/process.c:79-85, idt.c:56-60).
LEMMA ExitIInv ==
  ASSUME IInv, Exit
  PROVE  IInv'
<1> DEFINE t == current_task
<1> DEFINE a == GetNext(next', task_head', t)
<1> DEFINE b == GetNext(next', task_head', a)
<1>1. phase = "run" /\ t \in live /\ live # {t} /\ Destroyed(t)
  BY DEF Exit, IInv, PhaseOK
<1>2. /\ next' = RemoveNext(next, prev, t)
      /\ task_head' = RemoveHead(next, prev, task_head, t)
      /\ task_tail' = RemoveTail(prev, task_tail, t)
      /\ prev' = prev
      /\ harmed' = (harmed \/ ~PrevIsSound(t))
  BY DEF Exit
<1>3. \/ a = Null /\ current_task' = Null /\ phase' = "lost"
      \/ a # Null /\ Run(b, live')
  BY <1>2 DEF Exit
<1>4. /\ CreationOrder' /\ live' = live \ {t}
      /\ live' \subseteq Cells /\ older' \subseteq live' \X live'
  BY <1>1, DestroyedKeepsOrder
<1>5. Types'
  <2>1. next' \in [Cells -> Pointers] /\ task_head' \in Pointers /\ task_tail' \in Pointers
    BY <1>1, <1>2 DEF IInv, Types, RemoveNext, RemoveHead, RemoveTail, Pointers
  <2>2. a \in Pointers
    BY <1>1, <2>1 DEF IInv, Types, GetNext, Pointers
  <2>3. a # Null => b \in Pointers
    BY <2>1, <2>2 DEF GetNext, Pointers
  <2>4. current_task' \in Pointers /\ phase' \in {"run", "panic", "lost"}
    BY <1>3, <2>3 DEF Run, Pointers
  <2>5. harmed' \in BOOLEAN /\ prev' \in [Cells -> Pointers]
    BY <1>2 DEF IInv, Types
  <2>6. QED
    BY <1>4, <2>1, <2>4, <2>5 DEF Types
<1>6. PhaseOK'
  BY <1>3 DEF PhaseOK, Run
<1>7. NullPrevIsHead'
  <2>1. SUFFICES ASSUME ~harmed', NEW c \in live', prev'[c] = Null
                 PROVE  c = task_head'
    BY DEF NullPrevIsHead
  <2>2. c = task_head /\ c # t
    BY <1>2, <1>4, <2>1 DEF IInv, NullPrevIsHead
  <2>3. QED
    BY <1>2, <2>2 DEF RemoveHead
<1>8. ListInOrder'
  BY <1>1, ExitRuns, PassesOverIsInOrder DEF ListInOrder
<1>9. RunsLiveTasks'
  BY ExitRuns DEF RunsLiveTasks
<1>10. QED
  BY <1>4, <1>5, <1>6, <1>7, <1>8, <1>9 DEF IInv

------------------------------------------------------------------------------
(* The other actions.                                                        *)

\* A new task, at boot or loaded by a command (task.c:68-103).
LEMMA AppendIInv ==
  ASSUME IInv, NEW c \in Cells, c \notin live, Created(c), Enlist(c),
         harmed' = harmed, phase' = phase, phase \in {"boot", "run"},
         current_task' \in {current_task, c},
         phase = "boot" => current_task' = IF task_head = Null THEN c ELSE current_task
  PROVE  IInv'
<1>1. /\ CreationOrder' /\ live' = live \cup {c}
      /\ live' \subseteq Cells /\ older' \subseteq live' \X live'
  BY AppendKeepsOrder DEF Created
<1>2. Types'
  <2>1. next' \in [Cells -> Pointers] /\ prev' \in [Cells -> Pointers]
    BY DEF IInv, Types, Enlist, AppendNext, AppendPrev, Pointers
  <2>2. {task_head', task_tail', current_task'} \subseteq Pointers
    BY DEF IInv, Types, Enlist, AppendHead, Pointers
  <2>3. phase' \in {"boot", "run", "panic", "lost"} /\ harmed' \in BOOLEAN
    BY DEF IInv, Types
  <2>4. QED
    BY <1>1, <2>1, <2>2, <2>3 DEF Types
<1>3. PhaseOK'
  BY <1>1 DEF IInv, PhaseOK, Enlist, AppendHead
<1>4. ListInOrder' /\ NullPrevIsHead'
  <2>1. CASE harmed
    BY <2>1 DEF ListInOrder, NullPrevIsHead
  <2>2. CASE ~harmed
    BY <2>2, AppendKeepsList
  <2>3. QED
    BY <2>1, <2>2
<1>5. RunsLiveTasks'
  BY DEF RunsLiveTasks
<1>6. QED
  BY <1>1, <1>2, <1>3, <1>4, <1>5 DEF IInv

LEMMA StartIInv ==
  ASSUME IInv, NEW c \in Cells, BootLoad(c) \/ Load(c) \/ LoadWithoutSwitch(c)
  PROVE  IInv'
<1>1. CASE BootLoad(c)
  BY <1>1, AppendIInv DEF BootLoad, IInv, PhaseOK
<1>2. CASE Load(c)
  BY <1>2, AppendIInv DEF Load
<1>3. CASE LoadWithoutSwitch(c)
  BY <1>3, AppendIInv DEF LoadWithoutSwitch
<1>4. QED
  BY <1>1, <1>2, <1>3

\* A program that fails to load leaves the list as it was
\* (task/process.c:551-562).
LEMMA LoadFailsIInv ==
  ASSUME IInv, NEW c \in Cells, LoadFails(c)
  PROVE  IInv'
<1> DEFINE n == AppendNext(next, task_head, task_tail, c)
<1> DEFINE p == AppendPrev(prev, task_head, task_tail, c)
<1>1. /\ c \notin live /\ task_head # Null
      /\ next' = RemoveNext(n, p, c) /\ prev' = p
      /\ task_head' = RemoveHead(n, p, task_head, c)
      /\ task_tail' = RemoveTail(p, c, c)
      /\ UNCHANGED <<live, current_task, phase, older, harmed>>
      /\ phase = "run"
  BY DEF LoadFails
<1>2. n \in [Cells -> Pointers] /\ p \in [Cells -> Pointers]
  BY DEF IInv, Types, AppendNext, AppendPrev, Pointers
<1>3. Types'
  <2>1. next' \in [Cells -> Pointers] /\ task_head' \in Pointers /\ task_tail' \in Pointers
    BY <1>1, <1>2 DEF IInv, Types, RemoveNext, RemoveHead, RemoveTail, Pointers
  <2>2. QED
    BY <1>1, <1>2, <2>1 DEF IInv, Types
<1>4. CreationOrder' /\ PhaseOK' /\ RunsLiveTasks'
  BY <1>1 DEF IInv, CreationOrder, PhaseOK, RunsLiveTasks
<1>5. CASE harmed
  BY <1>1, <1>3, <1>4, <1>5 DEF IInv, NullPrevIsHead, ListInOrder
<1>6. CASE ~harmed
  <2>1. /\ task_head \in live /\ task_tail \in live /\ Youngest(task_tail)
        /\ c # task_tail /\ c # task_head
    BY <1>1, <1>6, ListFacts DEF IInv, ListInOrder
  <2>2. next[task_tail] = Null
    <3>1. SUFFICES ASSUME next[task_tail] # Null PROVE FALSE
      OBVIOUS
    <3>2. Follows(task_tail, next[task_tail]) /\ next[task_tail] \in live
      BY <1>6, <2>1, <3>1, ListFacts
    <3>3. QED
      BY <2>1, <3>2, OrderFacts DEF Follows, Youngest
  <2>3. p[c] = task_tail /\ n[c] = Null /\ n[task_tail] = c
    BY <1>1, <2>1 DEF IInv, Types, AppendNext, AppendPrev
  <2>4. \A x \in live : next'[x] = next[x] /\ prev'[x] = prev[x]
    <3>1. task_tail # Null
      BY <1>6, <2>1, ListFacts
    <3>2. next' = [n EXCEPT ![task_tail] = Null]
      BY <1>1, <2>3, <3>1 DEF RemoveNext
    <3>3. \A x \in live \ {task_tail} : n[x] = next[x] /\ x # c
      BY <1>1, <2>1 DEF IInv, Types, AppendNext
    <3>4. \A x \in live : prev'[x] = prev[x]
      BY <1>1 DEF IInv, Types, AppendPrev
    <3>5. live \subseteq Cells
      BY DEF IInv, Types
    <3>6. QED
      BY <1>2, <2>1, <2>2, <3>2, <3>3, <3>4, <3>5
  <2>5. task_head' = task_head /\ task_tail' = task_tail
    BY <1>1, <2>1, <2>3 DEF RemoveHead, RemoveTail
  <2>6. ListInOrder'
    BY <1>1, <1>6, <2>4, <2>5
    DEF IInv, ListInOrder, Oldest, Youngest, Follows
  <2>7. NullPrevIsHead'
    BY <1>1, <2>4, <2>5 DEF IInv, NullPrevIsHead
  <2>8. QED
    BY <1>3, <1>4, <2>6, <2>7 DEF IInv
<1>7. QED
  BY <1>5, <1>6

\* A switch to the task the list gives: the clock and the end of the boot.
LEMMA SwitchIInv ==
  ASSUME IInv, NEW b \in Pointers, Run(b, live), ~harmed => b \in live,
         UNCHANGED <<live, list, older, harmed>>
  PROVE  IInv'
<1>1. /\ UNCHANGED <<live, next, prev, task_head, task_tail, older, harmed>>
      /\ current_task' = b
      /\ phase' \in {"run", "panic", "lost"}
      /\ phase' = "run" => b \in live
      /\ b \in live => phase' = "run"
  <2>1. UNCHANGED <<live, next, prev, task_head, task_tail, older, harmed>> /\ current_task' = b
    BY DEF list, Run
  <2>2. b \in live => phase' = "run"
    BY DEF Run
  <2>3. b \notin live /\ b = Null => phase' = "panic"
    BY DEF Run
  <2>4. b \notin live /\ b # Null => phase' = "lost"
    BY DEF Run
  <2>5. QED
    BY <2>1, <2>2, <2>3, <2>4
<1>2. Types' /\ CreationOrder' /\ PhaseOK' /\ NullPrevIsHead'
  BY <1>1 DEF IInv, Types, CreationOrder, PhaseOK, NullPrevIsHead
<1>3. ListInOrder' /\ RunsLiveTasks'
  BY <1>1 DEF IInv, ListInOrder, RunsLiveTasks, Oldest, Youngest, Follows
<1>4. QED
  BY <1>2, <1>3 DEF IInv

LEMMA TickIInv ==
  ASSUME IInv, Tick \/ RunFirstEverTask
  PROVE  IInv'
<1>1. CASE Tick
  <2>1. current_task \in live
    BY <1>1 DEF Tick, IInv, PhaseOK
  <2>2. GetNext(next, task_head, current_task) \in Pointers
    BY <2>1 DEF GetNext, IInv, Types, Pointers
  <2>3. QED
    BY <1>1, <2>1, <2>2, GetNextLive, SwitchIInv DEF Tick
<1>2. CASE RunFirstEverTask
  <2>1. live # {}
    BY <1>2, FS_EmptySet DEF RunFirstEverTask
  <2>2. QED
    BY <1>2, <2>1, ListFacts, SwitchIInv DEF RunFirstEverTask, IInv, Types
<1>3. QED
  BY <1>1, <1>2

\* The actions that stop the kernel.
LEMMA StopIInv ==
  ASSUME IInv, BootFails \/ ExitLast
  PROVE  IInv'
<1>1. /\ UNCHANGED <<live, next, prev, task_head, task_tail, current_task, older, harmed>>
      /\ phase' = "panic"
  BY DEF BootFails, ExitLast, list
<1>2. QED
  BY <1>1
  DEF IInv, Types, CreationOrder, PhaseOK, NullPrevIsHead, ListInOrder, RunsLiveTasks,
      Oldest, Youngest, Follows

LEMMA InitIInv == Init => IInv
BY DEF Init, IInv, Types, CreationOrder, PhaseOK, NullPrevIsHead, ListInOrder,
       RunsLiveTasks, Pointers

LEMMA NextIInv == IInv /\ [Next]_vars => IInv'
<1>1. SUFFICES ASSUME IInv, [Next]_vars PROVE IInv'
  OBVIOUS
<1>2. ASSUME NEW c \in Cells, BootLoad(c) \/ Load(c) \/ LoadWithoutSwitch(c) \/ LoadFails(c)
      PROVE  IInv'
  BY <1>1, <1>2, StartIInv, LoadFailsIInv
<1>3. CASE UNCHANGED vars
  BY <1>1, <1>3
  DEF vars, list, IInv, Types, CreationOrder, PhaseOK, NullPrevIsHead, ListInOrder,
      RunsLiveTasks, Oldest, Youngest, Follows
<1>4. QED
  BY <1>1, <1>2, <1>3, TickIInv, ExitIInv, StopIInv DEF Next

------------------------------------------------------------------------------
(* The theorems.                                                             *)

\* The invariant: types, the order of creation, the list and the scheduler.
THEOREM TaskInvariant == Spec => []IInv
BY InitIInv, NextIInv, PTL DEF Spec

\* Type correctness, and the processor is at a live task, after a stale prev has done
\* harm too (task.h:26-42, task.c:13-18 and 86-121).
THEOREM TypeCorrect == Spec => []TypeOK
<1>1. IInv => TypeOK
  BY DEF IInv, PhaseOK, TypeOK
<1>2. QED
  BY <1>1, TaskInvariant, PTL

\* Until a stale prev has done harm the list is the live tasks in the order of
\* their creation (task.c:37-56 and 83-94).
THEOREM ListStaysInOrder == Spec => []ListInOrder
<1>1. IInv => ListInOrder
  BY DEF IInv
<1>2. QED
  BY <1>1, TaskInvariant, PTL

\* Until then the processor is given to live tasks only (task.c:105-121).
THEOREM OnlyLiveTasksRun == Spec => []RunsLiveTasks
<1>1. IInv => RunsLiveTasks
  BY DEF IInv
<1>2. QED
  BY <1>1, TaskInvariant, PTL

\* Until then a tick hands over to the next task in the order of creation, and
\* from the youngest to the oldest (task.c:27-35, idt.c:62-68).
THEOREM TicksGoRound == Spec => TicksInOrder
<1> DEFINE A ==
      Tick /\ ~harmed =>
        \/ Follows(current_task, current_task')
        \/ Youngest(current_task) /\ Oldest(current_task')
<1>1. IInv /\ [Next]_vars => [A]_vars
  <2>1. SUFFICES ASSUME IInv, Tick, ~harmed
                 PROVE  \/ Follows(current_task, current_task')
                        \/ Youngest(current_task) /\ Oldest(current_task')
    OBVIOUS
  <2>2. current_task \in live
    BY <2>1 DEF Tick, IInv, PhaseOK
  <2>3. current_task' = GetNext(next, task_head, current_task)
    BY <2>1 DEF Tick, Run
  <2>4. CASE next[current_task] = Null
    <3>1. Youngest(current_task)
      BY <2>1, <2>2, <2>4, ListFacts
    <3>2. current_task' = task_head
      BY <2>3, <2>4 DEF GetNext
    <3>3. Oldest(task_head)
      BY <2>1, <2>2 DEF IInv, ListInOrder
    <3>4. QED
      BY <3>1, <3>2, <3>3
  <2>5. CASE next[current_task] # Null
    <3>1. current_task' = next[current_task]
      BY <2>3, <2>5 DEF GetNext
    <3>2. Follows(current_task, next[current_task])
      BY <2>1, <2>2, <2>5, ListFacts
    <3>3. QED
      BY <3>1, <3>2
  <2>6. QED
    BY <2>4, <2>5
<1>2. QED
  BY <1>1, TaskInvariant, PTL DEF TicksInOrder, Spec

\* Until then the kernel panics at boot or with its last process, and never for
\* want of a task to run (task.c:108-111).
THEOREM NoEarlyPanic == Spec => PanicsOnlyAtTheEnd
<1> DEFINE A == phase' = "panic" /\ phase = "run" /\ ~harmed' => live' \subseteq {current_task}
<1>1. IInv /\ IInv' /\ [Next]_vars => [A]_vars
  <2>1. SUFFICES ASSUME IInv, IInv', Next, phase' = "panic", phase = "run", ~harmed'
                 PROVE  live' \subseteq {current_task}
    OBVIOUS
  <2>2. CASE Tick
    <3>1. current_task \in live /\ ~harmed
      BY <2>1, <2>2 DEF Tick, IInv, PhaseOK
    <3>2. phase' = "run"
      BY <2>1, <2>2, <3>1, GetNextLive DEF Tick, Run
    <3>3. QED
      BY <2>1, <3>2
  <2>3. CASE Exit
    BY <2>1, <2>3, ExitRuns
  <2>4. CASE ExitLast
    BY <2>4 DEF ExitLast
  <2>5. QED
    BY <2>1, <2>2, <2>3, <2>4
    DEF Next, BootLoad, Load, LoadWithoutSwitch, LoadFails, BootFails, RunFirstEverTask
<1>2. QED
  BY <1>1, TaskInvariant, PTL DEF PanicsOnlyAtTheEnd, Spec

------------------------------------------------------------------------------
(* The tail.  That it is there, even when a stale prev has been followed, is *)
(* a matter of the words prev alone: read from the tail on, they are a stack *)
(* of the tasks, or they go round for ever and never come to the first.      *)

\* The cells of Y lead by their words p to cells of Y.
Closed(p, Y) == \A c \in Y : p[c] = Null \/ p[c] \in Y

\* The cells that a leads to, itself included.
Reach(p, a) == {d \in Cells : \A Y \in SUBSET Cells : a \in Y /\ Closed(p, Y) => d \in Y}

\* The walk from the tail along prev goes round and never comes to a.
Cut(p, l, a) == \E X \in SUBSET Cells : l \in X /\ a \notin X /\ \A c \in X : p[c] \in X

\* It comes to a, through every task of alive, and nothing stands behind the tail.
Whole(p, n, l, alive, a) == alive \subseteq Reach(p, l) /\ a \in Reach(p, l) /\ n[l] = Null

\* One of the two: the walk from l goes round, or it comes to a.
Shape(p, n, l, alive, a) == Cut(p, l, a) \/ Whole(p, n, l, alive, a)

\* The cells that were enlisted since the list was last empty lead to each other
\* only, and one whose prev is null is the head.
Region(N) ==
  /\ task_head \in N \cup {Null} /\ task_tail \in N
  /\ phase = "run" => current_task \in N
  /\ \A c \in N : next[c] \in N \cup {Null} /\ prev[c] \in N \cup {Null}
  /\ \A a \in live \cap N : prev[a] = Null =>
       /\ a = task_head
       /\ Shape(prev, next, task_tail, live \cap N, a)

HasRegion ==
  /\ TailIsThere
  /\ phase \in {"boot", "run"} /\ live # {} => \E N \in SUBSET Cells : Region(N)

LEMMA ReachIs ==
  ASSUME NEW p \in [Cells -> Pointers], NEW a \in Cells
  PROVE  /\ a \in Reach(p, a) /\ Reach(p, a) \in SUBSET Cells /\ Closed(p, Reach(p, a))
         /\ \A Y \in SUBSET Cells : a \in Y /\ Closed(p, Y) => Reach(p, a) \subseteq Y
<1>1. a \in Reach(p, a) /\ Reach(p, a) \in SUBSET Cells
  BY DEF Reach
<1>2. \A Y \in SUBSET Cells : a \in Y /\ Closed(p, Y) => Reach(p, a) \subseteq Y
  BY DEF Reach
<1>3. ASSUME NEW c \in Reach(p, a), p[c] # Null PROVE p[c] \in Reach(p, a)
  <2>1. c \in Cells /\ p[c] \in Cells
    BY <1>3 DEF Reach, Pointers
  <2>2. ASSUME NEW Y \in SUBSET Cells, a \in Y, Closed(p, Y) PROVE p[c] \in Y
    <3>1. c \in Y
      BY <2>2 DEF Reach
    <3>2. QED
      BY <1>3, <2>2, <3>1 DEF Closed
  <2>3. QED
    BY <2>1, <2>2 DEF Reach
<1>4. QED
  BY <1>1, <1>2, <1>3 DEF Closed

\* What a leads to is a, and what its word leads to.
LEMMA ReachStep ==
  ASSUME NEW p \in [Cells -> Pointers], NEW a \in Cells, p[a] \in Cells
  PROVE  Reach(p, a) \subseteq {a} \cup Reach(p, p[a])
<1> DEFINE b == p[a]
           Y == {a} \cup Reach(p, b)
<1>1. b \in Cells
  OBVIOUS
<1>2. b \in Reach(p, b) /\ Reach(p, b) \in SUBSET Cells /\ Closed(p, Reach(p, b))
  BY <1>1, ReachIs
<1>3. Y \in SUBSET Cells /\ a \in Y /\ Closed(p, Y)
  BY <1>2 DEF Closed
<1> HIDE DEF Y
<1>4. Reach(p, a) \subseteq Y
  BY <1>3, ReachIs
<1>5. QED
  BY <1>4 DEF Y

\* A cell whose word is null leads to itself only.
LEMMA ReachNull ==
  ASSUME NEW p \in [Cells -> Pointers], NEW a \in Cells, p[a] = Null
  PROVE  Reach(p, a) = {a}
<1>1. {a} \in SUBSET Cells /\ a \in {a} /\ Closed(p, {a})
  BY DEF Closed
<1>2. QED
  BY <1>1, ReachIs

\* The cells on the way from a to c.
LEMMA OnTheWay ==
  ASSUME NEW p \in [Cells -> Pointers], NEW a \in Cells, NEW c \in Reach(p, a)
  PROVE  \E X \in SUBSET Cells :
           /\ a \in X /\ c \in X
           /\ \A d \in X \ {c} : p[d] \in X
           /\ \A d \in X : p[d] = Null => d = c
<1> DEFINE X == {d \in Reach(p, a) : c \in Reach(p, d)}
<1>1. c \in Cells /\ Reach(p, a) \in SUBSET Cells
  BY DEF Reach
<1>2. a \in X /\ c \in X
  BY <1>1, ReachIs
<1>3. ASSUME NEW d \in X, p[d] = Null PROVE d = c
  <2>1. d \in Cells /\ c \in Reach(p, d)
    BY <1>1
  <2>2. QED
    BY <1>3, <2>1, ReachNull
<1>4. ASSUME NEW d \in X \ {c} PROVE p[d] \in X
  <2>1. d \in Cells /\ c \in Reach(p, d) /\ d # c /\ p[d] # Null /\ d \in Reach(p, a)
    BY <1>1, <1>3, <1>4
  <2>2. p[d] \in Cells /\ p[d] \in Reach(p, a)
    BY <2>1, ReachIs DEF Closed, Pointers
  <2>3. c \in Reach(p, p[d])
    BY <2>1, <2>2, ReachStep
  <2>4. QED
    BY <2>2, <2>3
<1>5. X \in SUBSET Cells
  BY <1>1
<1>6. QED
  BY <1>2, <1>3, <1>4, <1>5

\* q is p with the word l in the cell c.
Pushed(p, c, l, q) == q[c] = l /\ \A d \in Cells : d # c => q[d] = p[d]

\* A cell that a does not lead to is given the word a: it leads to what a led to.
LEMMA ReachPush ==
  ASSUME NEW p \in [Cells -> Pointers], NEW a \in Cells, NEW c \in Cells, c \notin Reach(p, a),
         NEW q \in [Cells -> Pointers], Pushed(p, c, a, q)
  PROVE  Reach(p, a) \subseteq Reach(q, a) /\ Reach(p, a) \cup {c} \subseteq Reach(q, c)
<1>1. a \in Reach(p, a) /\ Reach(p, a) \in SUBSET Cells /\ Closed(p, Reach(p, a))
  BY ReachIs
<1>2. ASSUME NEW Y \in SUBSET Cells, a \in Y, Closed(q, Y) PROVE Reach(p, a) \subseteq Y
  <2> DEFINE Z == Y \cap Reach(p, a)
  <2>1. Z \in SUBSET Cells /\ a \in Z
    BY <1>1, <1>2
  <2>2. ASSUME NEW d \in Z PROVE p[d] = Null \/ p[d] \in Z
    <3>1. d # c /\ d \in Cells /\ d \in Y /\ d \in Reach(p, a)
      BY <1>1
    <3>2. p[d] = Null \/ p[d] \in Reach(p, a)
      BY <1>1, <3>1 DEF Closed
    <3>3. q[d] = Null \/ q[d] \in Y
      BY <1>2, <3>1 DEF Closed
    <3>4. QED
      BY <3>1, <3>2, <3>3 DEF Pushed
  <2>3. Closed(p, Z)
    BY <2>2 DEF Closed
  <2> HIDE DEF Z
  <2>4. Reach(p, a) \subseteq Z
    BY <2>1, <2>3, ReachIs
  <2>5. QED
    BY <2>4 DEF Z
<1>3. Reach(p, a) \subseteq Reach(q, a)
  BY <1>1, <1>2 DEF Reach
<1>4. ASSUME NEW Y \in SUBSET Cells, c \in Y, Closed(q, Y) PROVE Reach(p, a) \cup {c} \subseteq Y
  <2>1. a \in Y
    BY <1>4, CellsAssumption DEF Closed, Pushed
  <2>2. QED
    BY <1>2, <1>4, <2>1
<1>5. Reach(p, a) \cup {c} \subseteq Reach(q, c)
  BY <1>1, <1>4 DEF Reach
<1>6. QED
  BY <1>3, <1>5

\* task_new writes the tail into the prev of the new task c, which may be a cell
\* the walk passes through (task.c:96).
LEMMA PushShape ==
  ASSUME NEW p \in [Cells -> Pointers], NEW n \in [Cells -> Pointers],
         NEW l \in Cells, NEW c \in Cells, NEW alive \in SUBSET Cells, NEW a \in alive,
         a # c, p[a] = Null, Shape(p, n, l, alive, a),
         NEW q \in [Cells -> Pointers], Pushed(p, c, l, q)
  PROVE  /\ Cut(q, c, a) \/ (alive \cup {c} \subseteq Reach(q, c) /\ a \in Reach(q, c) /\ c # l)
         /\ Cut(q, l, a) \/ (alive \subseteq Reach(q, l) /\ a \in Reach(q, l) /\ n[l] = Null /\ c # l)
<1>1. CASE Cut(p, l, a)
  <2>1. PICK X \in SUBSET Cells : l \in X /\ a \notin X /\ \A d \in X : p[d] \in X
    BY <1>1 DEF Cut
  <2> DEFINE Y == X \cup {c}
  <2>2. Y \in SUBSET Cells /\ l \in Y /\ c \in Y /\ a \notin Y /\ \A d \in Y : q[d] \in Y
    BY <2>1 DEF Pushed
  <2> HIDE DEF Y
  <2>3. QED
    BY <2>2 DEF Cut
<1>2. CASE Whole(p, n, l, alive, a) /\ c \in Reach(p, l)
  <2>1. PICK X \in SUBSET Cells :
          /\ l \in X /\ c \in X
          /\ \A d \in X \ {c} : p[d] \in X
          /\ \A d \in X : p[d] = Null => d = c
    BY <1>2, OnTheWay
  <2>2. a \notin X /\ \A d \in X : q[d] \in X
    BY <2>1 DEF Pushed
  <2>3. QED
    BY <2>1, <2>2 DEF Cut
<1>3. CASE Whole(p, n, l, alive, a) /\ c \notin Reach(p, l)
  <2>1. Reach(p, l) \subseteq Reach(q, l) /\ Reach(p, l) \cup {c} \subseteq Reach(q, c)
    BY <1>3, ReachPush
  <2>2. l \in Reach(p, l)
    BY ReachIs
  <2>3. QED
    BY <1>3, <2>1, <2>2 DEF Whole
<1>4. QED
  BY <1>1, <1>2, <1>3 DEF Shape

\* A task t that ends leaves its words where they are (task.c:37-56).
LEMMA ExitShape ==
  ASSUME NEW p \in [Cells -> Pointers], NEW n \in [Cells -> Pointers],
         NEW l \in Cells, NEW alive \in SUBSET Cells, NEW a \in alive, NEW t \in alive,
         a # t, p[a] = Null, Shape(p, n, l, alive, a)
  PROVE  Shape(p, RemoveNext(n, p, t), RemoveTail(p, l, t), alive \ {t}, a)
<1>1. CASE Cut(p, l, a)
  BY <1>1 DEF Cut, Shape, RemoveTail
<1>2. CASE Whole(p, n, l, alive, a) /\ t = l
  <2>1. p[l] \in Cells
    BY <1>2, ReachNull DEF Whole, Pointers
  <2>2. Reach(p, l) \subseteq {l} \cup Reach(p, p[l])
    BY <2>1, ReachStep
  <2>3. RemoveNext(n, p, t)[p[l]] = Null /\ RemoveTail(p, l, t) = p[l]
    BY <1>2, <2>1, CellsAssumption DEF Whole, RemoveNext, RemoveTail
  <2>4. QED
    BY <1>2, <2>2, <2>3 DEF Whole, Shape
<1>3. CASE Whole(p, n, l, alive, a) /\ t # l
  <2>1. ASSUME p[t] = l PROVE FALSE
    <3>1. PICK X \in SUBSET Cells :
            /\ l \in X /\ t \in X
            /\ \A d \in X \ {t} : p[d] \in X
            /\ \A d \in X : p[d] = Null => d = t
      BY <1>3, OnTheWay DEF Whole
    <3>2. Closed(p, X)
      BY <2>1, <3>1 DEF Closed
    <3>3. a \in X
      BY <1>3, <3>1, <3>2, ReachIs DEF Whole
    <3>4. QED
      BY <3>1, <3>3
  <2>2. RemoveNext(n, p, t)[l] = Null /\ RemoveTail(p, l, t) = l
    BY <1>3, <2>1 DEF Whole, RemoveNext, RemoveTail
  <2>3. QED
    BY <1>3, <2>2 DEF Whole, Shape
<1>4. QED
  BY <1>1, <1>2, <1>3 DEF Shape

\* While the kernel goes on the cells of a region are there, and null is none.
LEMMA RegionFacts ==
  ASSUME IInv, HasRegion, phase \in {"boot", "run"}
  PROVE  /\ live # {} => \E N \in SUBSET Cells : Region(N)
         /\ task_head # Null => live # {}
         /\ phase = "run" => current_task \in live
         /\ task_head # Null => task_tail \in Cells
         /\ Null \notin Cells
         /\ task_head \in Pointers /\ task_tail \in Pointers
         /\ next \in [Cells -> Pointers] /\ prev \in [Cells -> Pointers]
         /\ live \in SUBSET Cells
BY CellsAssumption
DEF IInv, Types, PhaseOK, ListInOrder, HasRegion, TailIsThere, Pointers

\* task_new puts a task in a list (task.c:83-97).
LEMMA EnlistRegion ==
  ASSUME IInv, HasRegion, phase \in {"boot", "run"}, NEW c \in Cells, c \notin live,
         live' = live \cup {c}, Enlist(c),
         phase' = "run" =>
           phase = "run" /\ (current_task' = c \/ (task_head # Null /\ current_task' = current_task))
  PROVE  HasRegion'
<1>1. CASE task_head = Null
  <2>1. /\ next' \in [Cells -> Pointers] /\ prev' \in [Cells -> Pointers]
        /\ next'[c] = Null /\ prev'[c] = Null
        /\ task_head' = c /\ task_tail' = c
    BY <1>1, RegionFacts DEF Enlist, AppendNext, AppendPrev, AppendHead, Pointers
  <2>2. Reach(prev', c) = {c}
    BY <2>1, ReachNull
  <2>3. Region({c})'
    BY <1>1, <2>1, <2>2 DEF Region, Shape, Whole
  <2>4. QED
    BY <2>1, <2>3, RegionFacts DEF HasRegion, TailIsThere
<1>2. CASE task_head # Null
  <2>1. PICK N \in SUBSET Cells : Region(N)
    BY <1>2, RegionFacts
  <2> DEFINE M == N \cup {c}
  <2>2. task_tail \in N /\ task_tail \in Cells /\ task_head \in N
    BY <1>2, <2>1, RegionFacts DEF Region
  <2>3. /\ next' \in [Cells -> Pointers] /\ prev' \in [Cells -> Pointers]
        /\ Pushed(prev, c, task_tail, prev')
        /\ task_head' = task_head /\ task_tail' = c
        /\ c # task_tail => next'[c] = Null
        /\ \A d \in Cells : next'[d] = next[d] \/ next'[d] \in {c, Null}
    BY <1>2, <2>2, RegionFacts DEF Enlist, AppendNext, AppendPrev, AppendHead, Pointers, Pushed
  <2>4. \A d \in M : next'[d] \in M \cup {Null} /\ prev'[d] \in M \cup {Null}
    BY <2>1, <2>2, <2>3 DEF Region, Pushed
  <2>5. ASSUME NEW a \in live' \cap M, prev'[a] = Null
        PROVE  a = task_head' /\ Shape(prev', next', task_tail', live' \cap M, a)
    <3>1. a # c /\ a \in live \cap N /\ prev[a] = Null
      BY <2>2, <2>3, <2>5, RegionFacts DEF Pushed
    <3>2. a = task_head /\ Shape(prev, next, task_tail, live \cap N, a)
      BY <2>1, <3>1 DEF Region
    <3> DEFINE q == prev'
               alive == live \cap N
    <3>3. /\ prev \in [Cells -> Pointers] /\ next \in [Cells -> Pointers]
          /\ q \in [Cells -> Pointers] /\ task_tail \in Cells
          /\ alive \in SUBSET Cells /\ a \in alive /\ Pushed(prev, c, task_tail, q)
      BY <2>2, <2>3, <3>1, RegionFacts
    <3>4. /\ prev[a] = Null /\ a # c /\ Shape(prev, next, task_tail, alive, a)
      BY <3>1, <3>2
    <3>5. live' \cap M = alive \cup {c}
      BY RegionFacts
    <3> HIDE DEF q, alive
    <3>6. Cut(q, c, a) \/ (alive \cup {c} \subseteq Reach(q, c) /\ a \in Reach(q, c) /\ c # task_tail)
      BY <3>3, <3>4, PushShape
    <3>7. Shape(q, next', c, alive \cup {c}, a)
      BY <2>3, <3>6 DEF Shape, Whole
    <3>8. QED
      BY <2>3, <3>2, <3>5, <3>7 DEF q
  <2>6. phase' = "run" => current_task' \in M
    BY <2>1 DEF Region
  <2>7. M \in SUBSET Cells /\ task_head' \in M \cup {Null} /\ task_tail' \in M
    BY <2>2, <2>3
  <2> HIDE DEF M
  <2>8. Region(M)'
    BY <2>4, <2>5, <2>6, <2>7 DEF Region
  <2>9. QED
    BY <2>2, <2>3, <2>7, <2>8, RegionFacts DEF HasRegion, TailIsThere
<1>3. QED
  BY <1>1, <1>2

\* A task whose loading fails leaves its cell and its prev behind (task.c:99-103).
LEMMA LoadFailsRegion ==
  ASSUME IInv, HasRegion, NEW c \in Cells, LoadFails(c)
  PROVE  HasRegion'
<1>0. /\ phase = "run" /\ c \notin live /\ task_head # Null
      /\ live' = live /\ current_task' = current_task /\ phase' = phase
  BY DEF LoadFails
<1>1. PICK N \in SUBSET Cells : Region(N)
  BY <1>0, RegionFacts
<1> DEFINE M == N \cup {c}
           n == AppendNext(next, task_head, task_tail, c)
           p == AppendPrev(prev, task_head, task_tail, c)
<1>2. task_tail \in N /\ task_tail \in Cells /\ task_head \in N
  BY <1>0, <1>1, RegionFacts DEF Region
<1>3. /\ n \in [Cells -> Pointers] /\ p \in [Cells -> Pointers]
      /\ Pushed(prev, c, task_tail, p)
      /\ c # task_tail => n[c] = Null
      /\ \A d \in Cells : n[d] = next[d] \/ n[d] \in {c, Null}
  BY <1>0, <1>2, RegionFacts DEF AppendNext, AppendPrev, Pointers, Pushed
<1>4. /\ next' = RemoveNext(n, p, c) /\ prev' = p
      /\ task_head' = RemoveHead(n, p, task_head, c)
      /\ task_tail' = RemoveTail(p, c, c)
  BY DEF LoadFails
<1> HIDE DEF n, p
<1>5. /\ prev' \in [Cells -> Pointers] /\ Pushed(prev, c, task_tail, prev')
      /\ task_tail' = task_tail
      /\ next' = [n EXCEPT ![task_tail] = n[c]]
      /\ task_head' = task_head \/ (c = task_head /\ task_head' = next'[c])
  BY <1>0, <1>2, <1>3, <1>4, RegionFacts DEF Pushed, RemoveNext, RemoveHead, RemoveTail
<1>6. /\ next' \in [Cells -> Pointers]
      /\ c # task_tail => next'[task_tail] = Null
      /\ \A d \in Cells : next'[d] = next[d] \/ next'[d] \in {c, Null}
  BY <1>0, <1>2, <1>3, <1>5, RegionFacts DEF Pointers
<1>7. \A d \in M : next'[d] \in M \cup {Null} /\ prev'[d] \in M \cup {Null}
  BY <1>1, <1>2, <1>5, <1>6 DEF Region, Pushed
<1>8. ASSUME NEW a \in live' \cap M, prev'[a] = Null
      PROVE  a = task_head' /\ Shape(prev', next', task_tail', live' \cap M, a)
  <2>1. a # c /\ a \in live \cap N /\ prev[a] = Null
    BY <1>0, <1>2, <1>5, <1>8, RegionFacts DEF Pushed
  <2>2. a = task_head /\ Shape(prev, next, task_tail, live \cap N, a)
    BY <1>1, <2>1 DEF Region
  <2> DEFINE q == prev'
             alive == live \cap N
  <2>3. /\ prev \in [Cells -> Pointers] /\ next \in [Cells -> Pointers]
        /\ q \in [Cells -> Pointers] /\ task_tail \in Cells
        /\ alive \in SUBSET Cells /\ a \in alive /\ Pushed(prev, c, task_tail, q)
    BY <1>0, <1>2, <1>5, <2>1, RegionFacts
  <2>4. /\ prev[a] = Null /\ a # c /\ Shape(prev, next, task_tail, alive, a)
    BY <2>1, <2>2
  <2>5. live' \cap M = alive
    BY <1>0, RegionFacts
  <2> HIDE DEF q, alive
  <2>6. Cut(q, task_tail, a) \/
          (alive \subseteq Reach(q, task_tail) /\ a \in Reach(q, task_tail) /\ c # task_tail)
    BY <2>3, <2>4, PushShape
  <2>7. Shape(q, next', task_tail, alive, a)
    BY <1>6, <2>6 DEF Shape, Whole
  <2>8. QED
    BY <1>5, <2>1, <2>2, <2>5, <2>7 DEF q
<1>9. M \in SUBSET Cells /\ task_head' \in M \cup {Null} /\ task_tail' \in M /\ current_task' \in M
  BY <1>0, <1>1, <1>2, <1>5, <1>7 DEF Region
<1> HIDE DEF M
<1>10. Region(M)'
  BY <1>7, <1>8, <1>9 DEF Region
<1>11. QED
  BY <1>0, <1>2, <1>5, <1>9, <1>10, RegionFacts DEF HasRegion, TailIsThere

\* An exit takes the tail away with the last task, or moves it to a task in front
\* (task.c:37-56, process.c:160-188).
LEMMA ExitRegion ==
  ASSUME IInv, HasRegion, Exit
  PROVE  HasRegion'
<1> DEFINE t == current_task
           a == GetNext(next', task_head', t)
<1>0. /\ phase = "run" /\ t \in live /\ live' = live \ {t} /\ prev' = prev
      /\ next' = RemoveNext(next, prev, t)
      /\ task_head' = RemoveHead(next, prev, task_head, t)
      /\ task_tail' = RemoveTail(prev, task_tail, t)
      /\ IF a = Null THEN phase' = "lost"
                     ELSE Run(GetNext(next', task_head', a), live')
  BY RegionFacts DEF Exit, Destroyed
<1>1. PICK N \in SUBSET Cells : Region(N)
  BY <1>0, RegionFacts
<1>2. /\ t \in N /\ t \in Cells /\ task_tail \in N /\ task_tail \in Cells /\ task_head \in N \cup {Null}
      /\ \A d \in N : next[d] \in N \cup {Null} /\ prev[d] \in N \cup {Null}
  BY <1>0, <1>1 DEF Region
<1>3. /\ next' \in [Cells -> Pointers]
      /\ \A d \in N : next'[d] \in N \cup {Null}
      /\ prev[t] = Null => next' = next
  BY <1>0, <1>2, RegionFacts DEF RemoveNext, Pointers
<1>4. task_head' \in N \cup {Null} /\ (t # task_head => task_head' = task_head)
  BY <1>0, <1>2, <1>3 DEF RemoveHead
<1>5. CASE t = task_tail /\ prev[t] = Null
  <2> DEFINE alive == live \cap N
  <2>1. t = task_head /\ Shape(prev, next, task_tail, alive, t)
    BY <1>0, <1>1, <1>2, <1>5 DEF Region
  <2>2. ~ Cut(prev, task_tail, t)
    BY <1>5 DEF Cut
  <2>3. next[t] = Null
    BY <1>5, <2>1, <2>2 DEF Shape, Whole
  <2>4. task_head' = Null
    BY <1>0, <1>3, <1>5, <2>1, <2>3 DEF RemoveHead
  <2>5. a = Null
    BY <1>3, <1>5, <2>3, <2>4 DEF GetNext
  <2>6. QED
    BY <1>0, <2>4, <2>5 DEF HasRegion, TailIsThere
<1>6. CASE ~ (t = task_tail /\ prev[t] = Null)
  <2>1. task_tail' \in N
    BY <1>0, <1>2, <1>6 DEF RemoveTail
  <2>2. ASSUME NEW b \in live' \cap N, prev'[b] = Null
        PROVE  b = task_head' /\ Shape(prev', next', task_tail', live' \cap N, b)
    <3> DEFINE alive == live \cap N
    <3>1. b \in alive /\ b # t /\ prev[b] = Null /\ t \in alive
      BY <1>0, <1>2, <2>2
    <3>2. b = task_head /\ Shape(prev, next, task_tail, alive, b)
      BY <1>1, <3>1 DEF Region
    <3>3. /\ prev \in [Cells -> Pointers] /\ next \in [Cells -> Pointers]
          /\ task_tail \in Cells /\ alive \in SUBSET Cells
      BY <1>0, <1>2, RegionFacts
    <3>4. live' \cap N = alive \ {t}
      BY <1>0
    <3> HIDE DEF alive, t
    <3>5. Shape(prev, RemoveNext(next, prev, t), RemoveTail(prev, task_tail, t), alive \ {t}, b)
      BY <3>1, <3>2, <3>3, ExitShape
    <3>6. QED
      BY <1>0, <1>4, <3>1, <3>2, <3>4, <3>5
  <2>3. ASSUME phase' = "run" PROVE current_task' \in N
    <3>1. a \in N
      BY <1>0, <1>2, <1>3, <1>4, <2>3 DEF GetNext
    <3>2. GetNext(next', task_head', a) \in N \cup {Null}
      BY <1>3, <1>4, <3>1 DEF GetNext
    <3>3. current_task' = GetNext(next', task_head', a) /\ current_task' \in live'
      BY <1>0, <1>2, <2>3, <3>1, RegionFacts DEF Run
    <3>4. QED
      BY <1>0, <3>2, <3>3, RegionFacts
  <2>4. Region(N)'
    BY <1>0, <1>2, <1>3, <1>4, <2>1, <2>2, <2>3 DEF Region
  <2>5. QED
    BY <2>1, <2>4, RegionFacts, <1>0 DEF HasRegion, TailIsThere
<1>7. QED
  BY <1>5, <1>6

\* The clock and the start of the first task move along the words of a region.
LEMMA SwitchRegion ==
  ASSUME IInv, HasRegion, Tick \/ RunFirstEverTask
  PROVE  HasRegion'
<1> DEFINE b == IF phase = "run" THEN GetNext(next, task_head, current_task) ELSE task_head
<1>1. phase \in {"boot", "run"} /\ live # {}
  BY RegionFacts, FS_EmptySet DEF Tick, RunFirstEverTask
<1>2. PICK N \in SUBSET Cells : Region(N)
  BY <1>1, RegionFacts
<1>3. UNCHANGED <<live, next, prev, task_head, task_tail>> /\ Run(b, live)
  BY <1>1 DEF Tick, RunFirstEverTask, list
<1>4. b \in N \cup {Null}
  BY <1>1, <1>2 DEF Region, GetNext
<1>5. phase' = "run" => current_task' \in N
  BY <1>1, <1>3, <1>4, RegionFacts DEF Run
<1>6. Region(N)'
  BY <1>2, <1>3, <1>5 DEF Region
<1>7. QED
  BY <1>3, <1>6 DEF HasRegion, TailIsThere

LEMMA NextRegion == IInv /\ HasRegion /\ [Next]_vars => HasRegion'
<1> SUFFICES ASSUME IInv, HasRegion, [Next]_vars PROVE HasRegion'
  OBVIOUS
<1>1. ASSUME NEW c \in Cells, BootLoad(c) \/ Load(c) \/ LoadWithoutSwitch(c) PROVE HasRegion'
  <2>1. /\ phase \in {"boot", "run"} /\ c \notin live /\ live' = live \cup {c} /\ Enlist(c)
        /\ phase' = phase
        /\ phase = "run" => (current_task' = c \/ (task_head # Null /\ current_task' = current_task))
    BY <1>1 DEF BootLoad, Load, LoadWithoutSwitch, Created
  <2>2. QED
    BY <2>1, EnlistRegion
<1>2. ASSUME NEW c \in Cells, LoadFails(c) PROVE HasRegion'
  BY <1>2, LoadFailsRegion
<1>3. CASE BootFails \/ ExitLast
  <2>1. phase' = "panic" /\ UNCHANGED <<task_head, task_tail>>
    BY <1>3 DEF BootFails, ExitLast, list
  <2>2. QED
    BY <2>1 DEF HasRegion, TailIsThere
<1>4. CASE UNCHANGED vars
  <2>1. UNCHANGED <<live, next, prev, task_head, task_tail, current_task, phase>>
    BY <1>4 DEF vars, list
  <2>2. QED
    BY <2>1 DEF HasRegion, TailIsThere, Region
<1>5. QED
  BY <1>1, <1>2, <1>3, <1>4, ExitRegion, SwitchRegion DEF Next

\* Whatever a stale prev has done, task_new never follows a null tail: while the
\* list has a head it has a tail (task.c:83-97).
THEOREM TailStaysThere == Spec => []TailIsThere
<1>1. Init => HasRegion
  BY DEF Init, HasRegion, TailIsThere
<1>2. HasRegion => TailIsThere
  BY DEF HasRegion
<1>3. QED
  BY <1>1, <1>2, TaskInvariant, NextRegion, PTL DEF Spec

------------------------------------------------------------------------------
(* The scheduler.  What the walk along next sees is the live tasks in the    *)
(* order they were created, and there is only one such sequence.             *)

\* s has the tasks of alive, each once, in their order.
Lists(s, alive, order) ==
  /\ s \in Seq(alive)
  /\ \A i, j \in 1 .. Len(s) : i < j => <<s[i], s[j]>> \in order
  /\ \A a \in alive : \E i \in 1 .. Len(s) : s[i] = a

LEMMA ListsAgree ==
  ASSUME NEW alive, NEW order, NEW s, NEW t,
         \A a, b \in alive : ~ (<<a, b>> \in order /\ <<b, a>> \in order),
         Lists(s, alive, order), Lists(t, alive, order)
  PROVE  Len(s) <= Len(t) /\ \A i \in 1 .. Len(s) : s[i] = t[i]
<1> DEFINE Agree == {n \in Nat : n <= Len(s) => n <= Len(t) /\ \A i \in 1 .. n : s[i] = t[i]}
<1>1. /\ Len(s) \in Nat /\ Len(t) \in Nat
      /\ \A i \in 1 .. Len(s) : s[i] \in alive
      /\ \A i \in 1 .. Len(t) : t[i] \in alive
      /\ \A i, j \in 1 .. Len(s) : i < j => <<s[i], s[j]>> \in order
      /\ \A i, j \in 1 .. Len(t) : i < j => <<t[i], t[j]>> \in order
      /\ \A a \in alive : \E i \in 1 .. Len(s) : s[i] = a
      /\ \A a \in alive : \E i \in 1 .. Len(t) : t[i] = a
  BY DEF Lists
<1>2. 0 \in Agree
  BY <1>1
<1>3. ASSUME NEW n \in Nat, n \in Agree PROVE n + 1 \in Agree
  <2> SUFFICES ASSUME n + 1 <= Len(s)
               PROVE  n + 1 <= Len(t) /\ \A i \in 1 .. n + 1 : s[i] = t[i]
    OBVIOUS
  <2>1. n <= Len(t) /\ \A i \in 1 .. n : s[i] = t[i]
    BY <1>1, <1>3
  <2>2. n + 1 \in 1 .. Len(s) /\ s[n + 1] \in alive
    BY <1>1
  <2>3. PICK j \in 1 .. Len(t) : t[j] = s[n + 1]
    BY <1>1, <2>2
  <2>4. ~ (j <= n)
    <3>1. SUFFICES ASSUME j <= n PROVE FALSE
      OBVIOUS
    <3>2. j \in 1 .. Len(s) /\ j < n + 1 /\ s[j] = s[n + 1]
      BY <1>1, <2>1, <2>3, <3>1
    <3>3. <<s[n + 1], s[n + 1]>> \in order
      BY <1>1, <2>2, <3>2
    <3>4. QED
      BY <2>2, <3>3
  <2>5. n + 1 \in 1 .. Len(t) /\ n + 1 <= j
    BY <1>1, <2>3, <2>4
  <2>6. ~ (n + 1 < j)
    <3>1. SUFFICES ASSUME n + 1 < j PROVE FALSE
      OBVIOUS
    <3>2. t[n + 1] \in alive /\ <<t[n + 1], s[n + 1]>> \in order
      BY <1>1, <2>3, <2>5, <3>1
    <3>3. PICK k \in 1 .. Len(s) : s[k] = t[n + 1]
      BY <1>1, <3>2
    <3>4. CASE k <= n
      <4>1. t[k] = t[n + 1] /\ k \in 1 .. Len(t) /\ k < n + 1
        BY <1>1, <2>1, <3>3, <3>4
      <4>2. <<t[n + 1], t[n + 1]>> \in order
        BY <1>1, <2>5, <4>1
      <4>3. QED
        BY <3>2, <4>2
    <3>5. CASE k = n + 1
      BY <2>2, <3>2, <3>3, <3>5
    <3>6. CASE n + 1 < k
      <4>1. <<s[n + 1], t[n + 1]>> \in order
        BY <1>1, <2>2, <3>3, <3>6
      <4>2. QED
        BY <2>2, <3>2, <4>1
    <3>7. QED
      BY <1>1, <3>3, <3>4, <3>5, <3>6
  <2>7. t[n + 1] = s[n + 1]
    BY <1>1, <2>3, <2>5, <2>6
  <2>8. QED
    BY <1>1, <2>1, <2>5, <2>7
<1> HIDE DEF Agree
<1>4. Nat \subseteq Agree
  BY <1>2, <1>3, Induct
<1>5. QED
  BY <1>1, <1>4 DEF Agree

\* The order leaves no choice.
LEMMA ListsOnce ==
  ASSUME NEW alive, NEW order, NEW s, NEW t,
         \A a, b \in alive : ~ (<<a, b>> \in order /\ <<b, a>> \in order),
         Lists(s, alive, order), Lists(t, alive, order)
  PROVE  s = t
<1>1. Len(s) <= Len(t) /\ \A i \in 1 .. Len(s) : s[i] = t[i]
  BY ListsAgree
<1>2. Len(t) <= Len(s)
  BY ListsAgree
<1>3. s \in Seq(alive) /\ t \in Seq(alive) /\ Len(s) \in Nat /\ Len(t) \in Nat
  BY DEF Lists
<1>4. Len(s) = Len(t)
  BY <1>1, <1>2, <1>3
<1>5. QED
  BY <1>1, <1>3, <1>4, SeqEqual

\* A walk of at most k steps: where it has come, and that it goes on.
Finished(s) == IF s = <<>> THEN task_head = Null ELSE next[s[Len(s)]] = Null
Walked(s, k) ==
  /\ s \in Seq(live) /\ Len(s) <= k
  /\ s # <<>> => s[1] = task_head
  /\ \A i \in 1 .. Len(s) - 1 : next[s[i]] = s[i + 1]
  /\ \A i, j \in 1 .. Len(s) : i < j => <<s[i], s[j]>> \in older
  /\ Len(s) = k \/ Finished(s)

LEMMA FurtherWalked ==
  ASSUME IInv, ~harmed, NEW k \in Nat, NEW s, Walked(s, k)
  PROVE  Walked(Further(s), k + 1) /\ (~Finished(s) => Len(Further(s)) = k + 1)
<1>1. /\ s \in Seq(live) /\ Len(s) \in Nat /\ Len(s) <= k
      /\ s # <<>> => Len(s) \in 1 .. Len(s)
      /\ \A i \in 1 .. Len(s) : s[i] \in live
      /\ \A i, j \in 1 .. Len(s) : i < j => <<s[i], s[j]>> \in older
      /\ s = <<>> => Len(s) = 0
  BY DEF Walked
<1> DEFINE here == IF s = <<>> THEN task_head ELSE next[s[Len(s)]]
<1>2. Further(s) = IF here = Null THEN s ELSE Append(s, here)
  BY DEF Further
<1>3. Finished(s) <=> here = Null
  BY DEF Finished
<1> HIDE DEF here
<1>4. CASE here = Null
  <2>1. Further(s) = s /\ Finished(s) /\ Len(s) <= k + 1
    BY <1>1, <1>2, <1>3, <1>4
  <2>2. Walked(s, k + 1)
    BY <2>1 DEF Walked
  <2>3. QED
    BY <2>1, <2>2
<1>5. CASE here # Null
  <2>1. Len(s) = k
    BY <1>3, <1>5 DEF Walked
  <2>2. here \in live
    <3>1. CASE s = <<>>
      BY <1>5, <3>1, ListFacts DEF here
    <3>2. CASE s # <<>>
      BY <1>1, <1>5, <3>2, ListFacts DEF here
    <3>3. QED
      BY <3>1, <3>2
  <2>3. \A i \in 1 .. Len(s) : <<s[i], here>> \in older
    <3>1. SUFFICES ASSUME NEW i \in 1 .. Len(s) PROVE <<s[i], here>> \in older
      OBVIOUS
    <3>2. s # <<>> /\ here = next[s[Len(s)]] /\ Len(s) \in 1 .. Len(s)
      BY <1>1 DEF here
    <3>3. <<s[Len(s)], here>> \in older
      BY <1>1, <1>5, <3>2, ListFacts DEF Follows
    <3>4. CASE i = Len(s)
      BY <3>3, <3>4
    <3>5. CASE i < Len(s)
      <4>1. <<s[i], s[Len(s)]>> \in older
        BY <1>1, <3>2, <3>5
      <4>2. s[i] \in live /\ s[Len(s)] \in live
        BY <1>1, <3>2
      <4>3. QED
        BY <2>2, <3>3, <4>1, <4>2 DEF IInv, CreationOrder
    <3>6. QED
      BY <1>1, <3>4, <3>5
  <2> DEFINE u == Append(s, here)
  <2>4. /\ u \in Seq(live) /\ Len(u) = k + 1
        /\ \A i \in 1 .. k : u[i] = s[i]
        /\ u[k + 1] = here
    BY <1>1, <2>1, <2>2, AppendProperties
  <2> HIDE DEF u
  <2>5. u[1] = task_head
    <3>1. CASE s = <<>>
      BY <1>1, <2>1, <2>4, <3>1 DEF here
    <3>2. CASE s # <<>>
      BY <1>1, <2>1, <2>4, <3>2 DEF Walked
    <3>3. QED
      BY <3>1, <3>2
  <2>6. \A i \in 1 .. Len(u) - 1 : next[u[i]] = u[i + 1]
    <3>1. SUFFICES ASSUME NEW i \in 1 .. k PROVE next[u[i]] = u[i + 1]
      BY <2>4
    <3>2. CASE i = k
      <4>1. s # <<>>
        BY <1>1, <2>1
      <4>2. QED
        BY <2>1, <2>4, <3>2, <4>1 DEF here
    <3>3. CASE i < k
      <4>1. next[s[i]] = s[i + 1]
        BY <2>1, <3>3 DEF Walked
      <4>2. QED
        BY <2>4, <3>3, <4>1
    <3>4. QED
      BY <3>2, <3>3
  <2>7. \A i, j \in 1 .. Len(u) : i < j => <<u[i], u[j]>> \in older
    <3>1. SUFFICES ASSUME NEW i \in 1 .. k + 1, NEW j \in 1 .. k + 1, i < j
                   PROVE  <<u[i], u[j]>> \in older
      BY <2>4
    <3>2. i \in 1 .. k /\ u[i] = s[i]
      BY <2>4, <3>1
    <3>3. CASE j = k + 1
      BY <2>1, <2>3, <2>4, <3>2, <3>3
    <3>4. CASE j # k + 1
      BY <1>1, <2>1, <2>4, <3>1, <3>2, <3>4
    <3>5. QED
      BY <3>3, <3>4
  <2>8. Walked(u, k + 1)
    BY <2>4, <2>5, <2>6, <2>7 DEF Walked
  <2>9. QED
    BY <1>2, <1>5, <2>4, <2>8 DEF u
<1>6. QED
  BY <1>4, <1>5

\* A walk of as many steps as there are cells comes to the end.
LEMMA WalkEnds ==
  ASSUME IInv, ~harmed, NEW s, Walked(s, Cardinality(Cells))
  PROVE  Finished(s)
<1> SUFFICES ASSUME ~Finished(s) PROVE FALSE
  OBVIOUS
<1> DEFINE k == Cardinality(Cells)
           u == Further(s)
<1>1. k \in Nat /\ IsFiniteSet(Cells)
  BY CellsAssumption, FS_CardinalityType
<1> HIDE DEF k
<1>2. Walked(u, k + 1) /\ Len(u) = k + 1
  BY <1>1, FurtherWalked DEF k
<1> HIDE DEF u
<1>3. /\ u \in [1 .. k + 1 -> live]
      /\ \A i, j \in 1 .. k + 1 : i < j => <<u[i], u[j]>> \in older
  <2>1. u \in Seq(live)
    BY <1>2 DEF Walked
  <2>2. QED
    BY <1>2, <2>1, LenProperties DEF Walked
<1>4. live \subseteq Cells
  BY DEF IInv, Types
<1>5. u \in [1 .. k + 1 -> Cells]
  BY <1>3, <1>4
<1>6. ASSUME NEW i \in 1 .. k + 1, NEW j \in 1 .. k + 1, u[i] = u[j], i < j PROVE FALSE
  <2>1. <<u[j], u[j]>> \in older /\ u[j] \in live
    BY <1>3, <1>6
  <2>2. QED
    BY <2>1, OrderFacts
<1>7. \A i, j \in 1 .. k + 1 : u[i] = u[j] => i = j
  <2>1. SUFFICES ASSUME NEW i \in 1 .. k + 1, NEW j \in 1 .. k + 1, u[i] = u[j] PROVE i = j
    OBVIOUS
  <2>2. ~ (i < j) /\ ~ (j < i)
    BY <1>6, <2>1
  <2>3. QED
    BY <1>1, <2>2
<1>8. Cardinality(1 .. k + 1) = k + 1 /\ IsFiniteSet(1 .. k + 1)
  BY <1>1, FS_Interval
<1>9. u \in Injection(1 .. k + 1, Cells)
  BY <1>5, <1>7 DEF Injection, IsInjective
<1>10. Cardinality(1 .. k + 1) <= Cardinality(Cells)
  BY <1>1, <1>9, FS_Injection
<1>11. QED
  BY <1>1, <1>8, <1>10 DEF k

\* The walk of Chain, turn by turn.
LEMMA ChainWalked ==
  ASSUME IInv, ~harmed
  PROVE  Walked(Chain, Cardinality(Cells))
<1> DEFINE N == Cardinality(Cells)
           step == [p \in Nat \X Seq(Cells) |-> Further(p[2])]
           Body(f) == [k \in 0 .. N |-> IF k = 0 THEN <<>> ELSE Further(f[k - 1])]
           L == CHOOSE f : f = Body(f)
<1>1. N \in Nat
  BY CellsAssumption, FS_CardinalityType
<1>2. step \in [Nat \X Seq(Cells) -> Seq(Cells)]
  <2>1. ASSUME NEW seen \in Seq(Cells) PROVE Further(seen) \in Seq(Cells)
    <3> DEFINE here == IF seen = <<>> THEN task_head ELSE next[seen[Len(seen)]]
    <3>1. here \in Pointers
      <4>1. seen # <<>> => seen[Len(seen)] \in Cells
        BY <2>1
      <4>2. QED
        BY <4>1 DEF IInv, Types
    <3>2. Further(seen) = IF here = Null THEN seen ELSE Append(seen, here)
      BY DEF Further
    <3> HIDE DEF here
    <3>3. here # Null => here \in Cells
      BY <3>1 DEF Pointers
    <3>4. QED
      BY <2>1, <3>2, <3>3, AppendProperties
  <2>2. \A p \in Nat \X Seq(Cells) : Further(p[2]) \in Seq(Cells)
    BY <2>1
  <2>3. QED
    BY <2>2
<1> HIDE DEF N, step
<1>3. PICK f : Turns(f, Seq(Cells), <<>>, step, N)
  <2>1. <<>> \in Seq(Cells)
    OBVIOUS
  <2>2. QED
    BY <1>1, <1>2, <2>1, TurnsExist
<1>4. f = Body(f)
  <2>1. f \in [0 .. N -> Seq(Cells)] /\ f[0] = <<>>
    BY <1>3 DEF Turns
  <2>2. \A k \in 1 .. N : f[k] = step[<<k, f[k - 1]>>] /\ f[k - 1] \in Seq(Cells)
    BY <1>1, <1>3 DEF Turns
  <2>3. \A k \in 1 .. N : f[k] = Further(f[k - 1])
    <3>1. ASSUME NEW k \in 1 .. N, NEW seen \in Seq(Cells)
          PROVE  step[<<k, seen>>] = Further(seen)
      <4>1. <<k, seen>> \in Nat \X Seq(Cells) /\ <<k, seen>>[2] = seen
        BY <1>1
      <4>2. QED
        BY <4>1 DEF step
    <3>2. QED
      BY <2>2, <3>1
  <2>4. \A k \in 0 .. N : f[k] = IF k = 0 THEN <<>> ELSE Further(f[k - 1])
    BY <1>1, <2>1, <2>3
  <2>5. f = [k \in 0 .. N |-> f[k]]
    BY <2>1
  <2>6. QED
    BY <2>4, <2>5
<1>5. L = Body(L)
  BY <1>4
<1>6. Chain = L[N]
  BY DEF Chain, N
<1> HIDE DEF L
<1>7. \A k \in 0 .. N : L[k] = IF k = 0 THEN <<>> ELSE Further(L[k - 1])
  <2>1. \A k \in 0 .. N : L[k] = Body(L)[k]
    BY <1>5
  <2>2. QED
    BY <2>1
<1> DEFINE S == {k \in Nat : k <= N => Walked(L[k], k)}
<1>8. 0 \in S
  <2>1. L[0] = <<>>
    BY <1>1, <1>7
  <2>2. Walked(<<>>, 0)
    BY DEF Walked
  <2>3. QED
    BY <2>1, <2>2
<1>9. ASSUME NEW k \in Nat, k \in S PROVE k + 1 \in S
  <2>1. SUFFICES ASSUME k + 1 <= N PROVE Walked(L[k + 1], k + 1)
    OBVIOUS
  <2>2. Walked(L[k], k) /\ L[k + 1] = Further(L[k])
    BY <1>1, <1>7, <1>9, <2>1
  <2>3. QED
    BY <2>2, FurtherWalked
<1> HIDE DEF S
<1>10. Nat \subseteq S
  BY <1>8, <1>9, Induct
<1>11. QED
  BY <1>1, <1>6, <1>10 DEF S, N

Ordered ==
  /\ Lists(Chain, live, older)
  /\ Chain # <<>> => Chain[1] = task_head /\ next[Chain[Len(Chain)]] = Null
  /\ \A k \in 1 .. Len(Chain) - 1 : next[Chain[k]] = Chain[k + 1]

\* Until a stale prev does harm, the walk sees every task in its turn
\* (task.c:37-56 and 83-94).
LEMMA ChainOrdered == IInv /\ ~harmed => Ordered
<1> SUFFICES ASSUME IInv, ~harmed PROVE Ordered
  OBVIOUS
<1> DEFINE s == Chain
<1>1. Walked(s, Cardinality(Cells)) /\ Finished(s)
  BY ChainWalked, WalkEnds
<1> HIDE DEF s
<1>2. /\ s \in Seq(live) /\ Len(s) \in Nat
      /\ \A i \in 1 .. Len(s) : s[i] \in live
      /\ \A i, j \in 1 .. Len(s) : i < j => <<s[i], s[j]>> \in older
      /\ s # <<>> => s[1] = task_head /\ next[s[Len(s)]] = Null /\ Len(s) \in 1 .. Len(s)
      /\ \A i \in 1 .. Len(s) - 1 : next[s[i]] = s[i + 1]
      /\ s = <<>> => task_head = Null
  BY <1>1 DEF Walked, Finished
<1>3. ASSUME NEW a \in live, \A i \in 1 .. Len(s) : s[i] # a PROVE FALSE
  <2>1. s # <<>> /\ Oldest(task_head)
    BY <1>2, <1>3, ListFacts DEF IInv, ListInOrder
  <2> DEFINE S == {n \in Nat : n + 1 <= Len(s) => <<s[n + 1], a>> \in older}
  <2>2. 0 \in S
    BY <1>2, <1>3, <2>1 DEF Oldest
  <2>3. ASSUME NEW n \in Nat, n \in S PROVE n + 1 \in S
    <3>1. SUFFICES ASSUME n + 2 <= Len(s) PROVE <<s[n + 2], a>> \in older
      OBVIOUS
    <3>2. /\ n + 1 \in 1 .. Len(s) - 1 /\ n + 2 \in 1 .. Len(s)
          /\ <<s[n + 1], a>> \in older /\ next[s[n + 1]] = s[n + 2]
      BY <1>2, <2>3, <3>1
    <3>3. s[n + 1] \in live /\ s[n + 2] \in live /\ s[n + 2] # Null
      BY <1>2, <3>2, ListFacts
    <3>4. Follows(s[n + 1], s[n + 2])
      BY <3>2, <3>3, ListFacts
    <3>5. ~ (<<a, s[n + 2]>> \in older) /\ a # s[n + 2]
      BY <1>3, <3>2, <3>4 DEF Follows
    <3>6. QED
      BY <1>3, <3>3, <3>5, OrderFacts
  <2> HIDE DEF S
  <2>4. Nat \subseteq S
    BY <2>2, <2>3, Induct
  <2>5. Len(s) - 1 \in Nat /\ Len(s) \in 1 .. Len(s)
    BY <1>2, <2>1
  <2>6. <<s[Len(s)], a>> \in older
    <3>1. Len(s) - 1 \in S
      BY <2>4, <2>5
    <3>2. (Len(s) - 1) + 1 = Len(s)
      BY <2>5
    <3>3. QED
      BY <3>1, <3>2 DEF S
  <2>7. Youngest(s[Len(s)]) /\ s[Len(s)] \in live
    BY <1>2, <2>1, ListFacts
  <2>8. a # s[Len(s)]
    BY <1>3, <2>5
  <2>9. QED
    BY <1>3, <2>6, <2>7, <2>8, OrderFacts DEF Youngest
<1>4. Lists(s, live, older)
  BY <1>2, <1>3 DEF Lists
<1>5. QED
  BY <1>2, <1>4 DEF Ordered, s

\* A task that is created stands last (task.c:83-94).
LEMMA CreatedLast ==
  ASSUME IInv, NEW c \in Cells, c \notin live, Created(c),
         NEW s, Lists(s, live, older), NEW u, Lists(u, live', older')
  PROVE  u = Append(s, c) /\ ~ \E i \in 1 .. Len(s) : s[i] = c
<1>1. /\ s \in Seq(live) /\ Len(s) \in Nat
      /\ \A i \in 1 .. Len(s) : s[i] \in live
      /\ \A i, j \in 1 .. Len(s) : i < j => <<s[i], s[j]>> \in older
      /\ \A a \in live : \E i \in 1 .. Len(s) : s[i] = a
  BY DEF Lists
<1>2. /\ CreationOrder' /\ live' = live \cup {c}
      /\ \A a \in live : <<a, c>> \in older'
      /\ \A a, b \in live : <<a, b>> \in older' <=> <<a, b>> \in older
  BY AppendKeepsOrder DEF Created
<1> DEFINE v == Append(s, c)
<1>3. /\ v \in Seq(live') /\ Len(v) = Len(s) + 1
      /\ \A i \in 1 .. Len(s) : v[i] = s[i]
      /\ v[Len(s) + 1] = c
  <2>1. s \in Seq(live') /\ c \in live'
    BY <1>1, <1>2, SeqMonotonic
  <2>2. QED
    BY <2>1, AppendProperties
<1> HIDE DEF v
<1>4. \A i, j \in 1 .. Len(v) : i < j => <<v[i], v[j]>> \in older'
  <2>1. SUFFICES ASSUME NEW i \in 1 .. Len(v), NEW j \in 1 .. Len(v), i < j
                 PROVE  <<v[i], v[j]>> \in older'
    OBVIOUS
  <2>2. i \in 1 .. Len(s) /\ v[i] = s[i] /\ s[i] \in live
    BY <1>1, <1>3, <2>1
  <2>3. CASE j = Len(s) + 1
    BY <1>2, <1>3, <2>2, <2>3
  <2>4. CASE j # Len(s) + 1
    <3>1. j \in 1 .. Len(s) /\ v[j] = s[j] /\ s[j] \in live
      BY <1>1, <1>3, <2>4
    <3>2. QED
      BY <1>1, <1>2, <2>1, <2>2, <3>1
  <2>5. QED
    BY <2>3, <2>4
<1>5. \A a \in live' : \E i \in 1 .. Len(v) : v[i] = a
  <2>1. SUFFICES ASSUME NEW a \in live' PROVE \E i \in 1 .. Len(v) : v[i] = a
    OBVIOUS
  <2>2. CASE a = c
    BY <1>1, <1>3, <2>2
  <2>3. CASE a \in live
    <3>1. PICK i \in 1 .. Len(s) : s[i] = a
      BY <1>1, <2>3
    <3>2. i \in 1 .. Len(v) /\ v[i] = a
      BY <1>1, <1>3, <3>1
    <3>3. QED
      BY <3>2
  <2>4. QED
    BY <1>2, <2>2, <2>3
<1>6. Lists(v, live', older')
  BY <1>3, <1>4, <1>5 DEF Lists
<1>7. \A a, b \in live' : ~ (<<a, b>> \in older' /\ <<b, a>> \in older')
  BY <1>2 DEF CreationOrder
<1>8. u = v
  BY <1>6, <1>7, ListsOnce
<1>9. QED
  BY <1>1, <1>8 DEF v

\* A task that ends leaves its place (task.c:37-56).
LEMMA DestroyedLeaves ==
  ASSUME IInv, NEW t \in live, Destroyed(t),
         NEW s, Lists(s, live, older), NEW u, Lists(u, live', older'),
         NEW p \in 1 .. Len(s), s[p] = t
  PROVE  u = Scheduling!RemoveAt(s, p)
<1>1. /\ s \in Seq(live) /\ Len(s) \in Nat
      /\ \A i \in 1 .. Len(s) : s[i] \in live
      /\ \A i, j \in 1 .. Len(s) : i < j => <<s[i], s[j]>> \in older
      /\ \A a \in live : \E i \in 1 .. Len(s) : s[i] = a
  <2>1. /\ s \in Seq(live)
        /\ \A i, j \in 1 .. Len(s) : i < j => <<s[i], s[j]>> \in older
        /\ \A a \in live : \E i \in 1 .. Len(s) : s[i] = a
    BY Zenon DEF Lists
  <2>2. QED
    BY <2>1
<1>0. /\ live' = live \ {t}
      /\ older' = {pair \in older : t \notin {pair[1], pair[2]}}
  BY DEF Destroyed
<1>2. /\ live' = live \ {t}
      /\ \A a, b \in live' : <<a, b>> \in older' <=> <<a, b>> \in older
  BY <1>0
<1> DEFINE v == Scheduling!RemoveAt(s, p)
           At(k) == IF k < p THEN k ELSE k + 1
<1>3. /\ v \in Seq(live) /\ Len(v) = Len(s) - 1
      /\ \A k \in 1 .. Len(v) : v[k] = s[At(k)]
  <2> DEFINE x == SubSeq(s, 1, p - 1)
             y == SubSeq(s, p + 1, Len(s))
  <2>1. /\ x \in Seq(live) /\ Len(x) = p - 1
        /\ \A k \in 1 .. p - 1 : x[k] = s[k]
    <3>1. \A k \in 1 .. p - 1 : s[k] \in live
      BY <1>1
    <3>2. x \in Seq(live) /\ Len(x) = (IF 1 <= p - 1 THEN p - 1 - 1 + 1 ELSE 0)
          /\ \A k \in 1 .. p - 1 - 1 + 1 : x[k] = s[1 + k - 1]
      BY <1>1, <3>1, SubSeqProperties
    <3> HIDE DEF x
    <3>3. QED
      BY <1>1, <3>2
  <2>2. /\ y \in Seq(live) /\ Len(y) = Len(s) - p
        /\ \A k \in 1 .. Len(s) - p : y[k] = s[p + k]
    <3>1. y = [k \in 1 .. Len(s) - p |-> s[p + k]]
      <4>1. y = [k \in 1 .. Len(s) - (p + 1) + 1 |-> s[k + (p + 1) - 1]]
        BY <1>1
      <4>2. Len(s) - (p + 1) + 1 = Len(s) - p /\ \A k \in 1 .. Len(s) - p : k + (p + 1) - 1 = p + k
        BY <1>1
      <4> HIDE DEF y
      <4>3. QED
        BY <4>1, <4>2
    <3>2. \A k \in 1 .. Len(s) - p : s[p + k] \in live
      BY <1>1
    <3>3. Len(s) - p \in Nat
      BY <1>1
    <3> HIDE DEF y
    <3>4. y \in [1 .. Len(s) - p -> live]
      BY <3>1, <3>2
    <3> DEFINE n == Len(s) - p
    <3>5. n \in Nat /\ y \in [1 .. n -> live]
      BY <3>3, <3>4
    <3> HIDE DEF n
    <3>6. y \in Seq(live) /\ Len(y) = n
      BY <3>5
    <3>7. QED
      BY <3>1, <3>6 DEF n
  <2>3. v = x \o y
    BY DEF Scheduling!RemoveAt
  <2> HIDE DEF x, y, v
  <2>4. /\ v \in Seq(live) /\ Len(v) = Len(x) + Len(y)
        /\ \A k \in 1 .. Len(x) + Len(y) : v[k] = IF k <= Len(x) THEN x[k] ELSE y[k - Len(x)]
    BY <2>1, <2>2, <2>3, ConcatProperties
  <2>5. Len(v) = Len(s) - 1
    BY <1>1, <2>1, <2>2, <2>4
  <2>6. ASSUME NEW k \in 1 .. Len(v) PROVE v[k] = s[At(k)]
    <3>1. CASE k < p
      BY <1>1, <2>1, <2>4, <2>5, <2>6, <3>1
    <3>2. CASE ~ (k < p)
      <4>1. k - (p - 1) \in 1 .. Len(s) - p /\ p + (k - (p - 1)) = k + 1
        BY <1>1, <2>5, <2>6, <3>2
      <4>2. v[k] = y[k - (p - 1)]
        BY <1>1, <2>1, <2>2, <2>4, <2>5, <2>6, <3>2
      <4>3. QED
        BY <2>2, <3>2, <4>1, <4>2
    <3>3. QED
      BY <3>1, <3>2
  <2>7. QED
    BY <2>4, <2>5, <2>6
<1> HIDE DEF v
<1>16. Len(v) = Len(s) - 1 /\ Len(s) \in Nat /\ p \in 1 .. Len(s)
  BY <1>1, <1>3
<1>4. \A k \in 1 .. Len(v) : At(k) \in 1 .. Len(s) /\ At(k) # p
  BY <1>16
<1>5. \A k, l \in 1 .. Len(v) : k < l => At(k) < At(l)
  BY <1>16
<1>6. \A i \in 1 .. Len(s) : i # p => \E k \in 1 .. Len(v) : At(k) = i
  <2>1. SUFFICES ASSUME NEW i \in 1 .. Len(s), i # p PROVE \E k \in 1 .. Len(v) : At(k) = i
    OBVIOUS
  <2>2. CASE i < p
    <3>1. i \in 1 .. Len(v) /\ At(i) = i
      BY <1>1, <1>3, <2>2
    <3>2. QED
      BY <3>1
  <2>3. CASE i > p
    <3>1. i - 1 \in 1 .. Len(v) /\ At(i - 1) = i
      BY <1>1, <1>3, <2>3
    <3>2. QED
      BY <3>1
  <2>4. i < p \/ i > p
    BY <1>16, <2>1
  <2>5. QED
    BY <2>2, <2>3, <2>4
<1> HIDE DEF At
<1>7. \A i \in 1 .. Len(s) : i # p => s[i] # t
  <2>1. SUFFICES ASSUME NEW i \in 1 .. Len(s), i # p, s[i] = t PROVE FALSE
    OBVIOUS
  <2>2. i < p \/ p < i
    BY <1>1, <2>1
  <2>3. <<t, t>> \in older
    BY <1>1, <2>1, <2>2
  <2>4. QED
    BY <2>3, OrderFacts
<1>8. \A k \in 1 .. Len(v) : v[k] \in live'
  BY <1>1, <1>2, <1>3, <1>4, <1>7
<1>9. v \in Seq(live')
  <2>1. Len(v) \in Nat /\ v \in [1 .. Len(v) -> live]
    BY <1>3, LenProperties
  <2>2. v \in [1 .. Len(v) -> live']
    BY <1>8, <2>1
  <2>3. QED
    BY <2>1, <2>2
<1>10. \A k, l \in 1 .. Len(v) : k < l => <<v[k], v[l]>> \in older'
  BY <1>1, <1>2, <1>3, <1>4, <1>5, <1>8
<1>11. \A a \in live' : \E k \in 1 .. Len(v) : v[k] = a
  <2>1. SUFFICES ASSUME NEW a \in live' PROVE \E k \in 1 .. Len(v) : v[k] = a
    OBVIOUS
  <2>2. PICK i \in 1 .. Len(s) : s[i] = a
    BY <1>1, <1>2
  <2>3. i # p
    BY <1>2, <2>2
  <2>4. PICK k \in 1 .. Len(v) : At(k) = i
    BY <1>6, <2>3
  <2>5. QED
    BY <1>3, <2>2, <2>4
<1>12. Lists(v, live', older')
  BY <1>9, <1>10, <1>11 DEF Lists
<1>13. \A a, b \in live' : ~ (<<a, b>> \in older' /\ <<b, a>> \in older')
  BY <1>2, OrderFacts
<1>14. u = v
  BY <1>12, <1>13, ListsOnce
<1>15. QED
  BY <1>14 DEF v

\* The facts about the walk that a step needs.
LEMMA OrderedFacts ==
  ASSUME IInv, Ordered
  PROVE  /\ Chain \in Seq(live) /\ Len(Chain) \in Nat
         /\ \A t \in live : \E p \in 1 .. Len(Chain) : Chain[p] = t
         /\ \A i, j \in 1 .. Len(Chain) : Chain[i] = Chain[j] => i = j
         /\ live # {} <=> Chain # <<>>
<1>1. /\ Chain \in Seq(live) /\ Len(Chain) \in Nat
      /\ \A i \in 1 .. Len(Chain) : Chain[i] \in live
      /\ \A i, j \in 1 .. Len(Chain) : i < j => <<Chain[i], Chain[j]>> \in older
      /\ \A t \in live : \E p \in 1 .. Len(Chain) : Chain[p] = t
  BY DEF Ordered, Lists
<1>2. ASSUME NEW i \in 1 .. Len(Chain), NEW j \in 1 .. Len(Chain), Chain[i] = Chain[j] PROVE i = j
  <2>1. ~ (<<Chain[i], Chain[i]>> \in older)
    BY <1>1, OrderFacts
  <2>2. ~ (i < j) /\ ~ (j < i)
    BY <1>1, <1>2, <2>1
  <2>3. QED
    BY <1>1, <2>2
<1>3. live # {} <=> Chain # <<>>
  <2>1. CASE Chain = <<>>
    BY <1>1, <2>1
  <2>2. CASE Chain # <<>>
    <3>1. 1 \in 1 .. Len(Chain)
      BY <1>1, <2>2
    <3>2. QED
      BY <1>1, <2>2, <3>1
  <2>3. QED
    BY <2>1, <2>2
<1>4. QED
  BY <1>1, <1>2, <1>3

LEMMA PlaceIs ==
  ASSUME IInv, Ordered, NEW p \in 1 .. Len(Chain)
  PROVE  Scheduling!Place(Chain[p]) = p
<1>1. DOMAIN Chain = 1 .. Len(Chain) /\ \A i \in 1 .. Len(Chain) : Chain[i] = Chain[p] => i = p
  BY OrderedFacts, LenProperties
<1>2. (CHOOSE k \in DOMAIN Chain : Chain[k] = Chain[p]) = p
  BY <1>1
<1>3. QED
  BY <1>2 DEF Scheduling!Place

\* Boot, and the commands that load a program, are starts.
LEMMA CreatedStarts ==
  ASSUME IInv, Ordered, Ordered', NEW c \in Cells, c \notin live, Created(c),
         phase' = phase, current_task' \in {current_task, c}
  PROVE  Scheduling!Next
<1>1. Lists(Chain, live, older) /\ Lists(Chain', live', older')
  BY DEF Ordered
<1>2. Chain' = Append(Chain, c) /\ ~ \E i \in 1 .. Len(Chain) : Chain[i] = c
  BY <1>1, CreatedLast
<1>3. Scheduling!Start(c)
  BY <1>2 DEF Scheduling!Start, Scheduling!Contains
<1>4. QED
  BY <1>3 DEF Scheduling!Next

\* A load that fails leaves the list as it was.
LEMMA SameTasksSameChain ==
  ASSUME IInv, Ordered, Ordered', UNCHANGED <<live, older>>
  PROVE  Chain' = Chain
<1>1. Lists(Chain, live, older) /\ Lists(Chain', live, older)
  BY DEF Ordered
<1>2. \A a, b \in live : ~ (<<a, b>> \in older /\ <<b, a>> \in older)
  BY OrderFacts
<1>3. QED
  BY <1>1, <1>2, ListsOnce

\* A tick is a turn (task.c:27-35, idt.c:62-68).
LEMMA TickTurns ==
  ASSUME IInv, ~harmed, Ordered, Ordered', Tick
  PROVE  Scheduling!Next
<1>1. /\ phase = "run" /\ current_task \in live /\ UNCHANGED <<live, older>>
      /\ current_task' = GetNext(next, task_head, current_task)
      /\ phase' = "run"
  <2>1. current_task \in live
    BY DEF Tick, IInv, PhaseOK
  <2>2. GetNext(next, task_head, current_task) \in live
    BY <2>1, GetNextLive
  <2>3. QED
    BY <2>1, <2>2 DEF Tick, Run
<1>2. Chain' = Chain
  BY <1>1, SameTasksSameChain
<1>3. PICK p \in 1 .. Len(Chain) : Chain[p] = current_task
  BY <1>1, OrderedFacts
<1>4. Scheduling!Place(current_task) = p
  BY <1>3, PlaceIs
<1>5. Len(Chain) \in Nat /\ Chain # <<>> /\ Chain[1] = task_head /\ next[Chain[Len(Chain)]] = Null
  BY <1>1, OrderedFacts DEF Ordered
<1>6. current_task' = Chain[(p % Len(Chain)) + 1]
  <2>1. CASE p = Len(Chain)
    <3>1. current_task' = Chain[1]
      BY <1>1, <1>3, <1>5, <2>1 DEF GetNext
    <3>2. (p % Len(Chain)) + 1 = 1
      BY <1>3, <1>5, <2>1
    <3>3. QED
      BY <3>1, <3>2
  <2>2. CASE p # Len(Chain)
    <3>1. p \in 1 .. Len(Chain) - 1 /\ p + 1 \in 1 .. Len(Chain)
      BY <1>3, <1>5, <2>2
    <3>2. next[current_task] = Chain[p + 1] /\ Chain[p + 1] \in live
      <4>1. Chain \in Seq(live)
        BY OrderedFacts
      <4>2. Chain[p + 1] \in live
        BY <3>1, <4>1, ElementOfSeq
      <4>3. next[Chain[p]] = Chain[p + 1]
        BY <3>1 DEF Ordered
      <4>4. QED
        BY <1>3, <4>2, <4>3
    <3>3. Chain[p + 1] # Null
      BY <3>2, ListFacts
    <3>4. (p % Len(Chain)) + 1 = p + 1
      BY <1>5, <3>1
    <3>5. QED
      BY <1>1, <3>2, <3>3, <3>4 DEF GetNext
  <2>3. QED
    BY <2>1, <2>2
<1>7. Scheduling!Turn
  BY <1>1, <1>2, <1>4, <1>6 DEF Scheduling!Turn, Scheduling!Behind
<1>8. QED
  BY <1>7 DEF Scheduling!Next

\* An exit is an end (task.c:37-56 and 105-121, isr80h/process.c:79-85).
LEMMA ExitEnds ==
  ASSUME IInv, ~harmed', Ordered, Ordered', Exit
  PROVE  Scheduling!Next
<1> DEFINE t == current_task
<1>1. /\ phase = "run" /\ t \in live /\ live # {t} /\ Destroyed(t)
      /\ live' = live \ {t}
  BY DEF Exit, IInv, PhaseOK, Destroyed
<1>2. phase' = "run" /\ current_task' \in live'
  <2>1. PassesOver(t) /\ phase' = "run"
    BY ExitRuns
  <2>2. QED
    <3>1. Run(GetNext(next', task_head', GetNext(next', task_head', t)), live')
      BY <2>1 DEF Exit
    <3>2. QED
      BY <2>1, <3>1 DEF Run
<1>3. PICK p \in 1 .. Len(Chain) : Chain[p] = t
  BY <1>1, OrderedFacts
<1>4. Scheduling!Place(t) = p
  BY <1>3, PlaceIs
<1>5. Chain' = Scheduling!RemoveAt(Chain, p)
  <2>1. Lists(Chain, live, older) /\ Lists(Chain', live', older')
    BY DEF Ordered
  <2>2. QED
    BY <1>1, <1>3, <2>1, DestroyedLeaves
<1>6. Len(Chain) > 1
  <2>1. PICK u \in live : u # t
    BY <1>1
  <2>2. PICK q \in 1 .. Len(Chain) : Chain[q] = u
    BY OrderedFacts
  <2>3. QED
    BY <1>3, <2>1, <2>2, OrderedFacts
<1>7. current_task' \in Scheduling!ToSet(Chain')
  <2>1. /\ Chain' \in Seq(live')
        /\ \E q \in 1 .. Len(Chain') : Chain'[q] = current_task'
    BY <1>2 DEF Ordered, Lists
  <2>2. DOMAIN Chain' = 1 .. Len(Chain')
    BY <2>1, LenProperties
  <2>3. QED
    BY <2>1, <2>2 DEF Scheduling!ToSet
<1>8. Scheduling!End
  BY <1>1, <1>2, <1>4, <1>5, <1>6, <1>7 DEF Scheduling!End
<1>9. QED
  BY <1>8 DEF Scheduling!Next

LEMMA NextSchedules ==
  ASSUME IInv, ~harmed', ~harmed => Ordered, Ordered', [Next]_vars
  PROVE  Scheduling!Next \/ UNCHANGED <<Chain, current_task, phase = "run">>
<1>0. ~harmed /\ Ordered
  <2>1. CASE Exit
    <3>1. harmed' = (harmed \/ ~PrevIsSound(current_task))
      BY <2>1 DEF Exit
    <3>2. QED
      BY <3>1
  <2>2. CASE ~Exit
    <3>1. harmed' = harmed
      BY <2>2 DEF Next, vars, BootLoad, BootFails, RunFirstEverTask, Tick, Load,
                  LoadWithoutSwitch, LoadFails, ExitLast
    <3>2. QED
      BY <3>1
  <2>3. QED
    BY <2>1, <2>2
<1>1. ASSUME NEW c \in Cells, BootLoad(c) \/ Load(c) \/ LoadWithoutSwitch(c)
      PROVE  Scheduling!Next
  <2>1. /\ c \notin live /\ Created(c) /\ phase' = phase
        /\ current_task' \in {current_task, c}
    BY <1>1 DEF BootLoad, Load, LoadWithoutSwitch
  <2>2. QED
    BY <1>0, <2>1, CreatedStarts
<1>2. ASSUME NEW c \in Cells, LoadFails(c)
      PROVE  UNCHANGED <<Chain, current_task, phase = "run">>
  <2>1. UNCHANGED <<live, older, current_task, phase>>
    BY <1>2 DEF LoadFails
  <2>2. QED
    BY <1>0, <2>1, SameTasksSameChain
<1>3. CASE BootFails \/ ExitLast
  <2>1. UNCHANGED <<live, older, current_task>> /\ phase' = "panic"
    BY <1>3 DEF BootFails, ExitLast
  <2>2. Scheduling!Halt
    BY <1>0, <2>1, SameTasksSameChain DEF Scheduling!Halt
  <2>3. QED
    BY <2>2 DEF Scheduling!Next
<1>4. CASE RunFirstEverTask
  <2>1. live # {}
    BY <1>4, FS_EmptySet DEF RunFirstEverTask
  <2>2. /\ phase = "boot" /\ UNCHANGED <<live, older>>
        /\ current_task' = task_head /\ phase' = "run"
    BY <1>0, <1>4, <2>1, ListFacts DEF RunFirstEverTask, Run
  <2>3. Chain' = Chain
    BY <1>0, <2>2, SameTasksSameChain
  <2>4. Chain # <<>> /\ Head(Chain) = task_head
    BY <1>0, <2>1, OrderedFacts DEF Ordered
  <2>5. Scheduling!Begin
    BY <2>2, <2>3, <2>4 DEF Scheduling!Begin
  <2>6. QED
    BY <2>5 DEF Scheduling!Next
<1>5. CASE Tick
  BY <1>0, <1>5, TickTurns
<1>6. CASE Exit
  BY <1>0, <1>6, ExitEnds
<1>7. CASE UNCHANGED vars
  <2>1. UNCHANGED <<live, older, current_task, phase>>
    BY <1>7 DEF vars
  <2>2. QED
    BY <1>0, <2>1, SameTasksSameChain
<1>8. QED
  BY <1>1, <1>2, <1>3, <1>4, <1>5, <1>6, <1>7 DEF Next

LEMMA InitSchedules == Init => Scheduling!Init
<1> SUFFICES ASSUME Init PROVE Scheduling!Init
  OBVIOUS
<1>1. live = {} /\ phase = "boot" /\ current_task = Null
  BY DEF Init
<1>2. ~harmed
  BY Zenon DEF Init
<1>3. IInv
  BY InitIInv
<1>4. Ordered
  BY <1>2, <1>3, ChainOrdered
<1>5. Chain = <<>>
  BY <1>1, <1>3, <1>4, OrderedFacts
<1>6. QED
  BY <1>1, <1>5 DEF Scheduling!Init

\* Whatever order tasks start and end in, until a stale prev has done harm the list
\* implements the round-robin scheduler, for any set of cells (task.c:27-121).
THEOREM ListImplementsScheduler == Spec => ImplementsScheduler
<1>1. IInv /\ (~harmed => Ordered) /\ (~harmed => Ordered)' /\ [Next]_vars =>
        [harmed' \/ Scheduling!Next]_<<Chain, current_task, phase = "run">>
  BY NextSchedules
<1>2. IInv => (~harmed => Ordered)
  BY ChainOrdered
<1>3. QED
  BY <1>1, <1>2, InitSchedules, TaskInvariant, PTL DEF Spec, ImplementsScheduler, Scheduling!vars

=============================================================================
