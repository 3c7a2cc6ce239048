--------------------------- MODULE PoolLocks_proof ---------------------------
(***************************************************************************)
(* Proofs about PoolLocks, for any number of goroutines and contexts: an   *)
(* operation takes and releases its locks in an order that allows each of  *)
(* its instructions, and every goroutine holds what its operation has      *)
(* taken.                                                                  *)
(***************************************************************************)
EXTENDS PoolLocks, FiniteSetTheorems, SequenceTheorems, TLAPS

\* The operations keep the lock order: all but the reservation of a placeholder.
Ordered == "reserve" \notin Operations

Instructions ==
  {RLock, RUnlock, WLock, WUnlock, CDP}
    \cup {Lock(m) : m \in Contexts} \cup {Unlock(m) : m \in Contexts}

\* What a goroutine holds: contextsMu, and the Mu of one context at most.
Holding == [pool : {"none", "read", "write"}, ctx : Contexts \cup {None}]
Free == [pool |-> "none", ctx |-> None]
In(p) == [pool |-> p, ctx |-> None]

\* The discipline: which instruction is allowed to one that holds h, and what
\* it holds afterwards.
Exec(h, i, k) ==
  \/ /\ i = RLock /\ h.pool = "none" /\ (Ordered => h.ctx = None)
     /\ k = [pool |-> "read", ctx |-> h.ctx]
  \/ i = RUnlock /\ h.pool = "read" /\ k = [pool |-> "none", ctx |-> h.ctx]
  \/ i = WLock /\ h = Free /\ k = In("write")
  \/ i = WUnlock /\ h = In("write") /\ k = Free
  \/ \E m \in Contexts : i = Lock(m) /\ h.ctx = None /\ k = [pool |-> h.pool, ctx |-> m]
  \/ \E m \in Contexts : i = Unlock(m) /\ h.ctx = m /\ k = [pool |-> h.pool, ctx |-> None]
  \/ i = CDP /\ h.pool # "read" /\ h.ctx = None /\ k = h

Trace(c, tr) == \A i \in 1 .. Len(c) : Exec(tr[i], c[i], tr[i + 1])

\* The code c is allowed from its first instruction, which finds h, to its end,
\* which leaves k.
Leads(c, h, k) ==
  /\ c \in Seq(Instructions)
  /\ \E tr \in [1 .. Len(c) + 1 -> Holding] :
       tr[1] = h /\ tr[Len(c) + 1] = k /\ Trace(c, tr)

-----------------------------------------------------------------------------
(* Code.                                                                   *)

\* No code leads nowhere.
LEMMA LeadsNowhere ==
  ASSUME NEW h \in Holding
  PROVE  Leads(<<>>, h, h)
<1> DEFINE tr == [i \in 1 .. 1 |-> h]
<1>1. tr \in [1 .. Len(<<>>) + 1 -> Holding] /\ tr[1] = h /\ tr[Len(<<>>) + 1] = h OBVIOUS
<1>2. Trace(<<>>, tr) BY DEF Trace
<1> QED BY <1>1, <1>2 DEF Leads

LEMMA LeadsEmpty ==
  ASSUME NEW h, NEW k, Leads(<<>>, h, k)
  PROVE  h = k
BY DEF Leads

LEMMA LeadsOne ==
  ASSUME NEW h \in Holding, NEW k \in Holding, NEW i \in Instructions, Exec(h, i, k)
  PROVE  Leads(<<i>>, h, k)
<1> DEFINE tr == [j \in 1 .. 2 |-> IF j = 1 THEN h ELSE k]
<1>1. Len(<<i>>) = 1 /\ <<i>>[1] = i /\ <<i>> \in Seq(Instructions) OBVIOUS
<1>2. tr \in [1 .. 2 -> Holding] /\ tr[1] = h /\ tr[2] = k OBVIOUS
<1> HIDE DEF tr
<1>3. Trace(<<i>>, tr)
  <2> SUFFICES ASSUME NEW j \in 1 .. Len(<<i>>) PROVE Exec(tr[j], <<i>>[j], tr[j + 1])
    BY DEF Trace
  <2>1. j = 1 /\ j + 1 = 2 BY <1>1
  <2> QED BY <1>1, <1>2, <2>1
<1> QED BY <1>1, <1>2, <1>3 DEF Leads

LEMMA LeadsThen ==
  ASSUME NEW c, NEW d, NEW h, NEW k, NEW l, Leads(c, h, k), Leads(d, k, l)
  PROVE  Leads(c \o d, h, l)
<1>1. c \in Seq(Instructions) /\ d \in Seq(Instructions) BY DEF Leads
<1>2. PICK s \in [1 .. Len(c) + 1 -> Holding] :
         s[1] = h /\ s[Len(c) + 1] = k /\ Trace(c, s) BY DEF Leads
<1>3. PICK t \in [1 .. Len(d) + 1 -> Holding] :
         t[1] = k /\ t[Len(d) + 1] = l /\ Trace(d, t) BY DEF Leads
<1>4. /\ c \o d \in Seq(Instructions) /\ Len(c \o d) = Len(c) + Len(d)
      /\ Len(c) \in Nat /\ Len(d) \in Nat
      /\ \A i \in 1 .. Len(c) : (c \o d)[i] = c[i]
      /\ \A i \in 1 .. Len(c) + Len(d) : i > Len(c) => (c \o d)[i] = d[i - Len(c)]
  BY <1>1
<1> DEFINE tr == [i \in 1 .. Len(c) + Len(d) + 1 |-> IF i <= Len(c) THEN s[i] ELSE t[i - Len(c)]]
<1>5. tr \in [1 .. Len(c) + Len(d) + 1 -> Holding]
  <2> SUFFICES ASSUME NEW i \in 1 .. Len(c) + Len(d) + 1
               PROVE  (IF i <= Len(c) THEN s[i] ELSE t[i - Len(c)]) \in Holding
    OBVIOUS
  <2>1. CASE i <= Len(c)
    <3>1. i \in 1 .. Len(c) + 1 BY <1>4, <2>1
    <3> QED BY <2>1, <3>1
  <2>2. CASE ~(i <= Len(c))
    <3>1. i - Len(c) \in 1 .. Len(d) + 1 BY <1>4, <2>2
    <3> QED BY <2>2, <3>1
  <2> QED BY <2>1, <2>2
<1>6. \A i \in 1 .. Len(c) + 1 : tr[i] = s[i]
  <2> SUFFICES ASSUME NEW i \in 1 .. Len(c) + 1 PROVE tr[i] = s[i] OBVIOUS
  <2>1. i \in 1 .. Len(c) + Len(d) + 1 BY <1>4
  <2>2. CASE i <= Len(c) BY <2>1, <2>2
  <2>3. CASE ~(i <= Len(c))
    <3>1. i = Len(c) + 1 /\ i - Len(c) = 1 BY <1>4, <2>3
    <3> QED BY <1>2, <1>3, <2>1, <2>3, <3>1
  <2> QED BY <2>2, <2>3
<1>7. \A i \in 1 .. Len(d) + 1 : tr[Len(c) + i] = t[i]
  <2> SUFFICES ASSUME NEW i \in 1 .. Len(d) + 1 PROVE tr[Len(c) + i] = t[i] OBVIOUS
  <2>1. Len(c) + i \in 1 .. Len(c) + Len(d) + 1 /\ ~(Len(c) + i <= Len(c))
        /\ (Len(c) + i) - Len(c) = i
    BY <1>4
  <2> QED BY <2>1
<1> HIDE DEF tr
<1>8. tr[1] = h /\ tr[Len(c \o d) + 1] = l
  <2>1. 1 \in 1 .. Len(c) + 1 /\ Len(d) + 1 \in 1 .. Len(d) + 1
        /\ Len(c) + (Len(d) + 1) = Len(c \o d) + 1
    BY <1>4
  <2> QED BY <1>2, <1>3, <1>6, <1>7, <2>1
<1>9. Trace(c \o d, tr)
  <2> SUFFICES ASSUME NEW i \in 1 .. Len(c) + Len(d)
               PROVE  Exec(tr[i], (c \o d)[i], tr[i + 1])
    BY <1>4 DEF Trace
  <2>1. CASE i <= Len(c)
    <3>1. i \in 1 .. Len(c) /\ i \in 1 .. Len(c) + 1 /\ i + 1 \in 1 .. Len(c) + 1
      BY <1>4, <2>1
    <3>2. Exec(s[i], c[i], s[i + 1]) BY <1>2, <3>1 DEF Trace
    <3> QED BY <1>4, <1>6, <3>1, <3>2
  <2>2. CASE i > Len(c)
    <3> DEFINE j == i - Len(c)
    <3>1. /\ j \in 1 .. Len(d) /\ j \in 1 .. Len(d) + 1 /\ j + 1 \in 1 .. Len(d) + 1
          /\ Len(c) + j = i /\ Len(c) + (j + 1) = i + 1
      BY <1>4, <2>2
    <3>2. (c \o d)[i] = d[j] BY <1>4, <2>2
    <3> HIDE DEF j
    <3>3. Exec(t[j], d[j], t[j + 1]) BY <1>3, <3>1 DEF Trace
    <3>4. tr[i] = t[j] /\ tr[i + 1] = t[j + 1] BY <1>7, <3>1
    <3> QED BY <3>2, <3>3, <3>4
  <2> QED BY <1>4, <2>1, <2>2
<1> QED BY <1>4, <1>5, <1>8, <1>9 DEF Leads

\* Its first instruction is allowed, and so is the rest of it.
LEMMA LeadsOn ==
  ASSUME NEW c, NEW h, NEW l, Leads(c, h, l), c # <<>>
  PROVE  /\ Head(c) \in Instructions
         /\ \E k \in Holding : Exec(h, Head(c), k) /\ Leads(Tail(c), k, l)
<1>1. c \in Seq(Instructions) BY DEF Leads
<1>2. PICK s \in [1 .. Len(c) + 1 -> Holding] :
         s[1] = h /\ s[Len(c) + 1] = l /\ Trace(c, s) BY DEF Leads
<1>3. /\ Len(c) \in Nat /\ Len(c) >= 1 /\ Head(c) = c[1] /\ c[1] \in Instructions
      /\ Tail(c) \in Seq(Instructions) /\ Len(Tail(c)) = Len(c) - 1
      /\ \A i \in 1 .. Len(c) - 1 : Tail(c)[i] = c[i + 1]
  BY <1>1
<1> DEFINE tr == [i \in 1 .. Len(c) |-> s[i + 1]]
<1>4. tr \in [1 .. Len(Tail(c)) + 1 -> Holding]
  <2>1. 1 .. Len(Tail(c)) + 1 = 1 .. Len(c) BY <1>3
  <2>2. \A i \in 1 .. Len(c) : i + 1 \in 1 .. Len(c) + 1 BY <1>3
  <2> QED BY <2>1, <2>2
<1>5. tr[1] = s[2] /\ tr[Len(Tail(c)) + 1] = l
  <2>1. 1 \in 1 .. Len(c) /\ Len(c) \in 1 .. Len(c) /\ Len(Tail(c)) + 1 = Len(c) BY <1>3
  <2> QED BY <1>2, <2>1
<1>6. Trace(Tail(c), tr)
  <2> SUFFICES ASSUME NEW i \in 1 .. Len(c) - 1
               PROVE  Exec(tr[i], Tail(c)[i], tr[i + 1])
    BY <1>3 DEF Trace
  <2>1. i \in 1 .. Len(c) /\ i + 1 \in 1 .. Len(c) BY <1>3
  <2>2. tr[i] = s[i + 1] /\ tr[i + 1] = s[(i + 1) + 1] BY <2>1
  <2>3. Exec(s[i + 1], c[i + 1], s[(i + 1) + 1]) BY <1>2, <2>1 DEF Trace
  <2> QED BY <1>3, <2>2, <2>3
<1> HIDE DEF tr
<1>7. Exec(h, c[1], s[2]) /\ s[2] \in Holding
  <2>1. 1 \in 1 .. Len(c) /\ 1 + 1 = 2 /\ 2 \in 1 .. Len(c) + 1 BY <1>3
  <2> QED BY <1>2, <2>1 DEF Trace
<1> QED BY <1>3, <1>4, <1>5, <1>6, <1>7 DEF Leads

\* Two instructions in a row.
LEMMA LeadsTwo ==
  ASSUME NEW h \in Holding, NEW k \in Holding, NEW l \in Holding,
         NEW i \in Instructions, NEW j \in Instructions, Exec(h, i, k), Exec(k, j, l)
  PROVE  Leads(<<i, j>>, h, l)
<1>1. Leads(<<i>>, h, k) /\ Leads(<<j>>, k, l) BY LeadsOne
<1>2. <<i>> \o <<j>> = <<i, j>>
  <2>1. <<i>> \o <<j>> \in Seq(Instructions) /\ <<i, j>> \in Seq(Instructions) OBVIOUS
  <2>2. /\ Len(<<i>> \o <<j>>) = Len(<<i, j>>)
        /\ \A x \in 1 .. Len(<<i>> \o <<j>>) : (<<i>> \o <<j>>)[x] = <<i, j>>[x]
    OBVIOUS
  <2> QED BY <2>1, <2>2, SeqEqual
<1>3. Leads(<<i>> \o <<j>>, h, l) BY <1>1, LeadsThen
<1> QED BY <1>2, <1>3

LEMMA LeadsThree ==
  ASSUME NEW g \in Holding, NEW h \in Holding, NEW k \in Holding, NEW l \in Holding,
         NEW i1 \in Instructions, NEW i2 \in Instructions, NEW i3 \in Instructions,
         Exec(g, i1, h), Exec(h, i2, k), Exec(k, i3, l)
  PROVE  Leads(<<i1, i2, i3>>, g, l)
<1> DEFINE d == <<i1, i2>> \o <<i3>>
<1>1. Leads(<<i1, i2>>, g, k) /\ Leads(<<i3>>, k, l) BY LeadsOne, LeadsTwo
<1>2. Leads(d, g, l) BY <1>1, LeadsThen
<1>3. d \in Seq(Instructions) /\ <<i1, i2, i3>> \in Seq(Instructions) BY <1>2 DEF Leads
<1>4. Len(d) = Len(<<i1, i2, i3>>) /\ \A x \in 1 .. Len(d) : d[x] = <<i1, i2, i3>>[x]
  OBVIOUS
<1>5. d = <<i1, i2, i3>> BY <1>3, <1>4, SeqEqual
<1> QED BY <1>2, <1>5

\* The pieces that the operations are made of.
LEMMA PiecesLead ==
  /\ Leads(<<RLock, RUnlock>>, Free, Free)
  /\ Leads(<<WLock, WUnlock>>, Free, Free)
  /\ Leads(<<RLock>>, Free, In("read")) /\ Leads(<<RUnlock>>, In("read"), Free)
  /\ Leads(<<WLock>>, Free, In("write")) /\ Leads(<<WUnlock>>, In("write"), Free)
  /\ Leads(<<CDP>>, Free, Free) /\ Leads(<<CDP>>, In("write"), In("write"))
  /\ Leads(<<CDP, WUnlock>>, In("write"), Free)
  /\ Leads(<<CDP, RLock, RUnlock>>, Free, Free)
  /\ Leads(<<RLock, RUnlock, CDP>>, Free, Free)
  /\ Leads(<<CDP, CDP>>, Free, Free)
  /\ Leads(<<CDP, WLock>>, Free, In("write"))
  /\ Leads(<<CDP, WLock, WUnlock>>, Free, Free)
  /\ Leads(<<>>, Free, Free)
<1>1. /\ Free \in Holding /\ In("read") \in Holding /\ In("write") \in Holding
      /\ RLock \in Instructions /\ RUnlock \in Instructions /\ CDP \in Instructions
      /\ WLock \in Instructions /\ WUnlock \in Instructions
  BY DEF Holding, Free, In, Instructions
<1>2. /\ Exec(Free, RLock, In("read")) /\ Exec(In("read"), RUnlock, Free)
      /\ Exec(Free, WLock, In("write")) /\ Exec(In("write"), WUnlock, Free)
      /\ Exec(Free, CDP, Free) /\ Exec(In("write"), CDP, In("write"))
  BY DEF Exec, Free, In
<1>3. Leads(<<>>, Free, Free) BY <1>1, LeadsNowhere
<1> QED BY <1>1, <1>2, <1>3, LeadsOne, LeadsTwo, LeadsThree

\* A critical section of a context's Mu ends as it began, under contextsMu or not.
LEMMA SectionLeads ==
  ASSUME NEW m \in Contexts, NEW p \in {"none", "read", "write"}
  PROVE  Leads(Section(m), In(p), In(p))
<1> DEFINE k == [pool |-> p, ctx |-> m]
<1>1. /\ In(p) \in Holding /\ k \in Holding
      /\ Lock(m) \in Instructions /\ Unlock(m) \in Instructions
  BY DEF Holding, In, Instructions
<1>2. Exec(In(p), Lock(m), k) BY DEF Exec, In
<1>3. Exec(k, Unlock(m), In(p)) BY DEF Exec, In
<1> QED BY <1>1, <1>2, <1>3, LeadsTwo DEF Section

LEMMA LoopLeads ==
  ASSUME NEW ms \in SUBSET Contexts, NEW l \in Loops(ms), NEW p \in {"none", "read", "write"}
  PROVE  Leads(l, In(p), In(p))
<1> DEFINE n == Cardinality(ms)
<1>1. n \in Nat BY ContextAssumption, FS_Subset, FS_CardinalityType
<1>2. PICK s \in [1 .. n -> ms] :
        l = [i \in 1 .. 2 * Len(s) |->
               IF i % 2 = 1 THEN Lock(s[(i + 1) \div 2]) ELSE Unlock(s[i \div 2])]
  BY DEF Loops, SetToSeqs
<1> HIDE DEF n
<1>3. Len(s) = n BY <1>1, <1>2
<1> DEFINE half(i) == IF i % 2 = 1 THEN (i + 1) \div 2 ELSE i \div 2
<1>4. \A i \in 1 .. 2 * n : half(i) \in 1 .. n /\ s[half(i)] \in Contexts
  <2>1. \A i \in 1 .. 2 * n : half(i) \in 1 .. n BY <1>1
  <2> QED BY <2>1
<1>5. \A i \in 1 .. 2 * n :
        l[i] = IF i % 2 = 1 THEN Lock(s[half(i)]) ELSE Unlock(s[half(i)])
  BY <1>2, <1>3
<1>6. l \in Seq(Instructions) /\ Len(l) = 2 * n
  <2>1. \A i \in 1 .. 2 * n : l[i] \in Instructions BY <1>4, <1>5 DEF Instructions
  <2>2. l \in [1 .. 2 * n -> Instructions] BY <1>2, <1>3, <2>1
  <2> QED BY <1>1, <2>2
<1> DEFINE locked(i) == [pool |-> p, ctx |-> s[half(i)]]
           tr == [i \in 1 .. 2 * n + 1 |-> IF i % 2 = 1 THEN In(p) ELSE locked(i)]
<1>7. tr \in [1 .. 2 * n + 1 -> Holding] /\ tr[1] = In(p) /\ tr[2 * n + 1] = In(p)
  <2>1. \A i \in 1 .. 2 * n + 1 : i % 2 = 1 \/ i \in 1 .. 2 * n BY <1>1
  <2>2. In(p) \in Holding BY DEF In, Holding
  <2>3. \A i \in 1 .. 2 * n : locked(i) \in Holding BY <1>4 DEF Holding
  <2>4. 1 \in 1 .. 2 * n + 1 /\ 2 * n + 1 \in 1 .. 2 * n + 1 /\ 1 % 2 = 1 /\ (2 * n + 1) % 2 = 1
    BY <1>1
  <2> HIDE DEF half, locked
  <2> QED BY <2>1, <2>2, <2>3, <2>4
<1>8. Trace(l, tr)
  <2> SUFFICES ASSUME NEW i \in 1 .. 2 * n PROVE Exec(tr[i], l[i], tr[i + 1])
    BY <1>6 DEF Trace
  <2>1. i \in 1 .. 2 * n + 1 /\ i + 1 \in 1 .. 2 * n + 1 BY <1>1
  <2>2. CASE i % 2 = 1
    <3>1. (i + 1) % 2 # 1 /\ half(i + 1) = half(i) BY <1>1, <2>2
    <3>2. tr[i] = In(p) /\ tr[i + 1] = locked(i) /\ l[i] = Lock(s[half(i)])
      BY <1>5, <2>1, <2>2, <3>1
    <3>3. s[half(i)] \in Contexts BY <1>4
    <3> HIDE DEF tr, half
    <3> QED BY <3>2, <3>3 DEF Exec, In
  <2>3. CASE i % 2 # 1
    <3>1. (i + 1) % 2 = 1 BY <1>1, <2>3
    <3>2. tr[i] = locked(i) /\ tr[i + 1] = In(p) /\ l[i] = Unlock(s[half(i)])
      BY <1>5, <2>1, <2>3, <3>1
    <3>3. s[half(i)] \in Contexts BY <1>4
    <3> HIDE DEF tr, half
    <3> QED BY <3>2, <3>3 DEF Exec, In
  <2> QED BY <2>2, <2>3
<1> HIDE DEF tr
<1> QED BY <1>6, <1>7, <1>8 DEF Leads

\* Reap's loop, which runs under the write lock.
LEMMA DisposalsLead ==
  ASSUME NEW ms \in SUBSET Contexts, NEW l \in Disposals(ms)
  PROVE  Leads(l, In("write"), In("write"))
<1> DEFINE n == Cardinality(ms)
           w == In("write")
<1>1. n \in Nat BY ContextAssumption, FS_Subset, FS_CardinalityType
<1>2. PICK s \in [1 .. n -> ms] :
        l = [i \in 1 .. 3 * Len(s) |->
               LET m == s[(i + 2) \div 3] IN
                 IF i % 3 = 1 THEN Lock(m) ELSE IF i % 3 = 2 THEN Unlock(m) ELSE CDP]
  BY DEF Disposals, SetToSeqs
<1> HIDE DEF n
<1>3. Len(s) = n BY <1>1, <1>2
<1> DEFINE third(i) == (i + 2) \div 3
<1>4. \A i \in 1 .. 3 * n : third(i) \in 1 .. n /\ s[third(i)] \in Contexts
  <2>1. \A i \in 1 .. 3 * n : third(i) \in 1 .. n BY <1>1
  <2> QED BY <2>1
<1>5. \A i \in 1 .. 3 * n :
        l[i] = IF i % 3 = 1 THEN Lock(s[third(i)])
               ELSE IF i % 3 = 2 THEN Unlock(s[third(i)]) ELSE CDP
  BY <1>2, <1>3
<1>6. l \in Seq(Instructions) /\ Len(l) = 3 * n
  <2>1. \A i \in 1 .. 3 * n : l[i] \in Instructions
    <3> HIDE DEF third
    <3> QED BY <1>4, <1>5 DEF Instructions
  <2>2. l \in [1 .. 3 * n -> Instructions] BY <1>2, <1>3, <2>1
  <2> QED BY <1>1, <2>2
<1> DEFINE locked(i) == [pool |-> "write", ctx |-> s[third(i)]]
           tr == [i \in 1 .. 3 * n + 1 |-> IF i % 3 = 2 THEN locked(i) ELSE w]
<1>7. tr \in [1 .. 3 * n + 1 -> Holding] /\ tr[1] = w /\ tr[3 * n + 1] = w
  <2>1. \A i \in 1 .. 3 * n + 1 : i % 3 # 2 \/ i \in 1 .. 3 * n BY <1>1
  <2>2. w \in Holding BY DEF In, Holding
  <2>3. \A i \in 1 .. 3 * n : locked(i) \in Holding BY <1>4 DEF Holding
  <2>4. /\ 1 \in 1 .. 3 * n + 1 /\ 3 * n + 1 \in 1 .. 3 * n + 1
        /\ 1 % 3 # 2 /\ (3 * n + 1) % 3 # 2
    BY <1>1
  <2> HIDE DEF third, locked, w
  <2> QED BY <2>1, <2>2, <2>3, <2>4
<1>8. Trace(l, tr)
  <2> SUFFICES ASSUME NEW i \in 1 .. 3 * n PROVE Exec(tr[i], l[i], tr[i + 1])
    BY <1>6 DEF Trace
  <2>1. i \in 1 .. 3 * n + 1 /\ i + 1 \in 1 .. 3 * n + 1 BY <1>1
  <2>2. s[third(i)] \in Contexts BY <1>4
  <2>3. CASE i % 3 = 1
    <3>1. (i + 1) % 3 = 2 /\ third(i + 1) = third(i) BY <1>1, <2>3
    <3>2. tr[i] = w /\ tr[i + 1] = locked(i) /\ l[i] = Lock(s[third(i)])
      BY <1>5, <2>1, <2>3, <3>1
    <3> HIDE DEF tr, third
    <3> QED BY <2>2, <3>2 DEF Exec, In
  <2>4. CASE i % 3 = 2
    <3>1. (i + 1) % 3 # 2 BY <1>1, <2>4
    <3>2. tr[i] = locked(i) /\ tr[i + 1] = w /\ l[i] = Unlock(s[third(i)])
      BY <1>5, <2>1, <2>4, <3>1
    <3> HIDE DEF tr, third
    <3> QED BY <2>2, <3>2 DEF Exec, In
  <2>5. CASE i % 3 # 1 /\ i % 3 # 2
    <3>1. (i + 1) % 3 # 2 BY <1>1, <2>5
    <3>2. tr[i] = w /\ tr[i + 1] = w /\ l[i] = CDP BY <1>5, <2>1, <2>5, <3>1
    <3> HIDE DEF tr, third
    <3> QED BY <3>2 DEF Exec, In
  <2> QED BY <2>3, <2>4, <2>5
<1> HIDE DEF tr
<1> QED BY <1>6, <1>7, <1>8 DEF Leads

\* A search may end before it has seen every context.
LEMMA SearchLeads ==
  ASSUME NEW l \in Searches, NEW p \in {"none", "read", "write"}
  PROVE  Leads(l, In(p), In(p))
<1>1. PICK ms \in SUBSET Contexts : l \in Loops(ms) BY DEF Searches
<1> QED BY <1>1, LoopLeads

\* The code of each operation leads from nothing held to nothing held: discovery.
LEMMA DiscoverLeads ==
  ASSUME NEW d \in DiscoverCode
  PROVE  Leads(d, Free, Free)
<1>1. CASE d \in {<<>>, <<CDP>>} BY <1>1, PiecesLead
<1>2. ASSUME NEW l \in Loops(Contexts \ {Default}), d = <<CDP, RLock, RUnlock>> \o l
      PROVE  Leads(d, Free, Free)
  BY <1>2, LoopLeads, PiecesLead, LeadsThen DEF In, Free
<1> QED BY <1>1, <1>2 DEF DiscoverCode

LEMMA ContextLeads ==
  ASSUME NEW c \in ContextCode
  PROVE  Leads(c, Free, Free)
<1>1. CASE c \in {<<RLock, RUnlock>>, <<RLock, RUnlock, CDP>>} BY <1>1, PiecesLead
<1>2. ASSUME NEW d \in DiscoverCode \cup {<<CDP>>},
             c = <<RLock, RUnlock>> \o d \o <<WLock, WUnlock>>
      PROVE  Leads(c, Free, Free)
  <2>1. Leads(d, Free, Free) BY DiscoverLeads, PiecesLead
  <2>2. Leads(<<RLock, RUnlock>> \o d, Free, Free) BY <2>1, PiecesLead, LeadsThen
  <2> QED BY <1>2, <2>2, PiecesLead, LeadsThen
<1>3. CASE c = <<RLock, RUnlock, CDP, WLock, CDP, WUnlock>>
  <2> DEFINE d == <<RLock, RUnlock>> \o <<CDP>> \o <<WLock>> \o <<CDP>> \o <<WUnlock>>
  <2>1. Leads(<<RLock, RUnlock>> \o <<CDP>>, Free, Free) BY PiecesLead, LeadsThen
  <2>2. Leads(<<RLock, RUnlock>> \o <<CDP>> \o <<WLock>>, Free, In("write"))
    BY <2>1, PiecesLead, LeadsThen
  <2>3. Leads(<<RLock, RUnlock>> \o <<CDP>> \o <<WLock>> \o <<CDP>>, Free, In("write"))
    BY <2>2, PiecesLead, LeadsThen
  <2>4. Leads(d, Free, Free) BY <2>3, PiecesLead, LeadsThen
  <2>5. c = d
    <3>1. /\ RLock \in Instructions /\ RUnlock \in Instructions /\ CDP \in Instructions
          /\ WLock \in Instructions /\ WUnlock \in Instructions
      BY DEF Instructions
    <3>2. c \in Seq(Instructions) /\ d \in Seq(Instructions) BY <1>3, <2>4, <3>1 DEF Leads
    <3>3. Len(c) = Len(d) BY <1>3
    <3>4. \A x \in 1 .. Len(c) : c[x] = d[x] BY <1>3, <3>1
    <3> QED BY <3>2, <3>3, <3>4, SeqEqual
  <2> QED BY <2>4, <2>5
<1> QED BY <1>1, <1>2, <1>3 DEF ContextCode

LEMMA ReserveLeads ==
  ASSUME ~Ordered, NEW m \in Contexts
  PROVE  Leads(ReserveCode(m), Free, Free)
<1> DEFINE k == [pool |-> "none", ctx |-> m]
           l == [pool |-> "read", ctx |-> m]
           d == <<Lock(m), RLock>> \o <<RUnlock, Unlock(m)>>
<1>1. /\ Free \in Holding /\ k \in Holding /\ l \in Holding
      /\ RLock \in Instructions /\ RUnlock \in Instructions
      /\ Lock(m) \in Instructions /\ Unlock(m) \in Instructions
  BY DEF Holding, Free, Instructions
<1>2. Exec(Free, Lock(m), k) /\ Exec(k, Unlock(m), Free) BY DEF Exec, Free
<1>3. Exec(k, RLock, l) /\ Exec(l, RUnlock, k) BY DEF Exec
<1> HIDE DEF k, l
<1>4. Leads(<<Lock(m), RLock>>, Free, l) BY <1>1, <1>2, <1>3, LeadsTwo
<1>5. Leads(<<RUnlock, Unlock(m)>>, l, Free) BY <1>1, <1>2, <1>3, LeadsTwo
<1>6. Leads(d, Free, Free) BY <1>4, <1>5, LeadsThen
<1>7. ReserveCode(m) = d
  <2>1. ReserveCode(m) \in Seq(Instructions) /\ d \in Seq(Instructions)
    BY <1>1, <1>6 DEF Leads, ReserveCode
  <2>2. Len(ReserveCode(m)) = Len(d) BY DEF ReserveCode
  <2>3. \A x \in 1 .. Len(d) : ReserveCode(m)[x] = d[x] BY <1>1 DEF ReserveCode
  <2> HIDE DEF d
  <2> QED BY <2>1, <2>2, <2>3, SeqEqual
<1> QED BY <1>6, <1>7

\* The pieces of getOrCreatePage that lock a context for themselves.
LEMMA SectionsLead ==
  ASSUME NEW m \in Contexts
  PROVE  /\ Leads(Section(m), Free, Free)
         /\ Leads(NewPageCode(m), Free, Free)
         /\ Leads(CandidateCode(m), Free, Free)
         /\ \A r : Leads(r, Free, Free) => Leads(Section(m) \o r, Free, Free)
<1>1. Leads(Section(m), Free, Free) BY SectionLeads DEF In, Free
<1> QED BY <1>1, PiecesLead, LeadsThen DEF NewPageCode, CandidateCode

LEMMA RebindLeads ==
  ASSUME NEW m \in Contexts, NEW c \in RebindCode(m)
  PROVE  Leads(c, Free, Free)
<1> DEFINE ends == {<<>>, Section(m) \o <<CDP>>}
           code1(d, e, f) == d \o e \o f
<1>0. RebindCode(m) = {code1(d, e, f) : d \in DiscoverCode, e \in DiscoverCode, f \in ends}
  BY DEF RebindCode
<1>a. \A f \in ends : f = <<>> \/ f = Section(m) \o <<CDP>> OBVIOUS
<1> HIDE DEF ends, code1
<1>1. PICK d \in DiscoverCode, e \in DiscoverCode, f \in ends : c = code1(d, e, f)
  BY <1>0
<1>2. Leads(d \o e, Free, Free) BY DiscoverLeads, LeadsThen
<1>3. Leads(<<CDP>>, Free, Free) /\ Leads(<<>>, Free, Free) BY PiecesLead
<1>4. Leads(Section(m) \o <<CDP>>, Free, Free) BY <1>3, SectionsLead
<1>5. Leads(f, Free, Free) BY <1>a, <1>3, <1>4
<1> QED BY <1>1, <1>2, <1>5, LeadsThen DEF code1

LEMMA AdoptLeads ==
  ASSUME NEW c \in AdoptCode(Default)
  PROVE  Leads(c, Free, Free)
<1>0. Default \in Contexts BY ContextAssumption
<1>1. CASE c \in {<<>>, <<CDP>>} BY <1>1, PiecesLead
<1>2. ASSUME NEW r \in {<<CDP>>} \cup DiscoverCode \cup RebindCode(Default),
             c = <<CDP>> \o Section(Default) \o r
      PROVE  Leads(c, Free, Free)
  <2>1. Leads(r, Free, Free) BY <1>0, DiscoverLeads, RebindLeads, PiecesLead
  <2>2. Leads(<<CDP>> \o Section(Default), Free, Free)
    BY <1>0, SectionsLead, PiecesLead, LeadsThen
  <2> QED BY <1>2, <2>1, <2>2, LeadsThen
<1> QED BY <1>1, <1>2 DEF AdoptCode

LEMMA CreateLeads ==
  ASSUME NEW m \in Contexts, NEW c \in CreateCode(m)
  PROVE  Leads(c, Free, Free)
<1>1. CASE c = NewPageCode(m) BY <1>1, SectionsLead
<1>2. ASSUME NEW d \in DiscoverCode, NEW n \in {<<>>, NewPageCode(m)},
             c = NewPageCode(m) \o d \o Section(m) \o n
      PROVE  Leads(c, Free, Free)
  <2>1. Leads(NewPageCode(m) \o d, Free, Free) BY SectionsLead, DiscoverLeads, LeadsThen
  <2>2. Leads(NewPageCode(m) \o d \o Section(m), Free, Free) BY <2>1, SectionsLead, LeadsThen
  <2>3. Leads(n, Free, Free) BY SectionsLead, PiecesLead
  <2> QED BY <1>2, <2>2, <2>3, LeadsThen
<1> QED BY <1>1, <1>2 DEF CreateCode

LEMMA CloseLeads ==
  ASSUME NEW m \in Contexts, NEW c \in CloseCode(m)
  PROVE  Leads(c, Free, Free)
<1> DEFINE disposals == IF m = Default THEN {}
                        ELSE {<<CDP, WLock>> \o Section(m) \o d : d \in {<<WUnlock>>, <<CDP, WUnlock>>}}
           rest == {<<>>, <<CDP>>, <<CDP, WLock, WUnlock>>} \cup disposals
<1>1. PICK r \in rest : c = <<CDP>> \o Section(m) \o r BY DEF CloseCode
<1>2. Leads(r, Free, Free)
  <2>1. CASE r \in {<<>>, <<CDP>>, <<CDP, WLock, WUnlock>>} BY <2>1, PiecesLead
  <2>2. ASSUME NEW d \in {<<WUnlock>>, <<CDP, WUnlock>>}, r = <<CDP, WLock>> \o Section(m) \o d
        PROVE  Leads(r, Free, Free)
    <3>1. Leads(<<CDP, WLock>> \o Section(m), Free, In("write"))
      BY SectionLeads, PiecesLead, LeadsThen
    <3>2. Leads(d, In("write"), Free) BY PiecesLead
    <3> QED BY <2>2, <3>1, <3>2, LeadsThen
  <2> QED BY <2>1, <2>2
<1>3. Leads(<<CDP>> \o Section(m), Free, Free) BY SectionsLead, PiecesLead, LeadsThen
<1> HIDE DEF rest
<1> QED BY <1>1, <1>2, <1>3, LeadsThen

LEMMA ReapLeads ==
  ASSUME NEW c \in ReapCode
  PROVE  Leads(c, Free, Free)
<1>1. PICK e \in Disposals(Contexts \ {Default}) : c = <<CDP, WLock>> \o e \o <<WUnlock>>
  BY DEF ReapCode
<1>2. Leads(e, In("write"), In("write")) BY DisposalsLead
<1>3. Leads(<<CDP, WLock>> \o e, Free, In("write")) BY <1>2, PiecesLead, LeadsThen
<1> QED BY <1>1, <1>3, PiecesLead, LeadsThen

\* Every operation is allowed all of its instructions and ends with nothing held.
LEMMA CodeLeads ==
  ASSUME NEW op \in Operations, NEW c \in Code[op]
  PROVE  Leads(c, Free, Free)
<1>1. /\ op \in DOMAIN Code
      /\ op = "reserve" => ~Ordered
      /\ Default \in Contexts
  BY OperationsAssumption, ContextAssumption DEF Ordered
<1>2. CASE op = "List"
  <2>1. PICK l \in Searches : c = <<RLock, RUnlock>> \o l BY <1>2 DEF Code, ListCode
  <2> QED BY <2>1, SearchLeads, PiecesLead, LeadsThen DEF In, Free
<1>3. CASE op = "FindManagedPage"
  <2>1. PICK l \in Searches : c = <<RLock>> \o l \o <<RUnlock>>
    BY <1>3 DEF Code, FindCode
  <2>2. Leads(<<RLock>> \o l, Free, In("read")) BY SearchLeads, PiecesLead, LeadsThen
  <2> QED BY <2>1, <2>2, PiecesLead, LeadsThen
<1>4. CASE op = "HealthCheck"
  BY <1>4, SectionsLead DEF Code
<1>5. CASE op = "getOrCreateContextSafe"
  BY <1>5, ContextLeads DEF Code
<1>6. CASE op = "lookup"
  <2>1. PICK m \in Contexts : c \in LookupCode(m) BY <1>6 DEF Code
  <2> QED BY <2>1, SectionsLead, PiecesLead DEF LookupCode
<1>7. CASE op = "adoptExistingPage"
  BY <1>7, AdoptLeads DEF Code
<1>8. CASE op = "publish"
  <2>1. PICK r \in {<<CDP, CDP>>, <<RLock, RUnlock, CDP>>} :
          c = <<RLock, RUnlock>> \o Section(Default) \o r
    BY <1>8 DEF Code, PublishCode
  <2>2. Leads(<<RLock, RUnlock>> \o Section(Default), Free, Free)
    BY <1>1, SectionsLead, PiecesLead, LeadsThen
  <2> QED BY <2>1, <2>2, PiecesLead, LeadsThen
<1>9. CASE op = "reserve"
  BY <1>1, <1>9, ReserveLeads DEF Code
<1>10. CASE op = "createPageWithStaleRecovery"
  <2>1. PICK m \in Contexts : c \in CreateCode(m) BY <1>10 DEF Code
  <2> QED BY <2>1, CreateLeads
<1>11. CASE op = "patch"
  <2>1. PICK m \in Contexts : c \in PatchCode(m) BY <1>11 DEF Code
  <2>2. PICK r \in {<<>>, <<CDP>>, <<RLock, RUnlock, CDP>>} : c = Section(m) \o r
    BY <2>1 DEF PatchCode
  <2>3. Leads(r, Free, Free) BY PiecesLead
  <2> QED BY <2>2, <2>3, SectionsLead
<1>12. CASE op = "ClosePage"
  <2>1. PICK m \in Contexts : c \in CloseCode(m) BY <1>12 DEF Code
  <2> QED BY <2>1, CloseLeads
<1>13. CASE op = "Reap"
  BY <1>13, ReapLeads DEF Code
<1>14. CASE op = "UpdateBrowser"
  <2>1. PICK l \in Loops(Contexts) : c = <<WLock>> \o l \o <<WUnlock>>
    BY <1>14 DEF Code, UpdateCode
  <2>2. Leads(<<WLock>> \o l, Free, In("write")) BY LoopLeads, PiecesLead, LeadsThen
  <2> QED BY <2>1, <2>2, PiecesLead, LeadsThen
<1>15. CASE op = "SetStealthProfile"
  BY <1>15, PiecesLead DEF Code, ProfileCode
<1>16. DOMAIN Code = {"List", "FindManagedPage", "HealthCheck", "getOrCreateContextSafe",
                      "lookup", "adoptExistingPage", "publish", "reserve",
                      "createPageWithStaleRecovery", "patch", "ClosePage", "Reap",
                      "UpdateBrowser", "SetStealthProfile"}
  BY DEF Code
<1> QED
  BY <1>1, <1>2, <1>3, <1>4, <1>5, <1>6, <1>7, <1>8, <1>9, <1>10, <1>11, <1>12, <1>13,
     <1>14, <1>15, <1>16

-----------------------------------------------------------------------------
(* The invariant.                                                          *)

\* What the locks say that t holds.
Holds(t, h) ==
  /\ h.pool = "write" <=> writer = t
  /\ h.pool = "read" <=> t \in readers
  /\ \A m \in Contexts : owner[m] = t <=> h.ctx = m

LockTypes ==
  /\ code \in [Threads -> Seq(Instructions)]
  /\ readers \subseteq Threads /\ waiting \subseteq Threads
  /\ pending \in Threads \cup {None} /\ writer \in Threads \cup {None}
  /\ owner \in [Contexts -> Threads \cup {None}]

\* Each goroutine holds what the rest of its operation begins with, and the
\* operation ends with nothing held.
Disciplined == \A t \in Threads : \E h \in Holding : Holds(t, h) /\ Leads(code[t], h, Free)

\* sync.RWMutex: a writer is alone, and who waits is at its instruction.
Exclusion ==
  /\ writer # None => readers = {} /\ pending = None
  /\ pending # None => At(pending, "WLock")
  /\ \A t \in waiting : At(t, "RLock")

LockInv == LockTypes /\ Disciplined /\ Exclusion

\* What the next instruction of a goroutine finds and leaves.
LEMMA NextInstruction ==
  ASSUME LockInv, NEW t \in Threads, code[t] # <<>>
  PROVE  \E h, k \in Holding :
           /\ Holds(t, h) /\ Head(code[t]) \in Instructions
           /\ Exec(h, Head(code[t]), k) /\ Leads(Tail(code[t]), k, Free)
<1>1. PICK h \in Holding : Holds(t, h) /\ Leads(code[t], h, Free)
  BY DEF LockInv, Disciplined
<1>2. Head(code[t]) \in Instructions
  BY <1>1, LeadsOn
<1>3. \E k \in Holding : Exec(h, Head(code[t]), k) /\ Leads(Tail(code[t]), k, Free)
  BY <1>1, LeadsOn
<1> QED BY <1>1, <1>2, <1>3

LEMMA InitLocks == Init => LockInv
<1> SUFFICES ASSUME Init PROVE LockInv OBVIOUS
<1>1. LockTypes BY DEF Init, LockTypes
<1>2. Disciplined
  <2> SUFFICES ASSUME NEW t \in Threads
               PROVE  Holds(t, Free) /\ Leads(code[t], Free, Free)
    BY DEF Disciplined, Free, Holding
  <2>1. Leads(<<>>, Free, Free) BY LeadsNowhere DEF Free, Holding
  <2>2. Holds(t, Free) BY NoneAssumption DEF Init, Holds, Free
  <2> QED BY <2>1, <2>2 DEF Init
<1>3. Exclusion BY DEF Init, Exclusion
<1> QED BY <1>1, <1>2, <1>3 DEF LockInv

\* A goroutine whose own steps have not run goes on as before.
LEMMA OthersHold ==
  ASSUME LockInv, NEW u \in Threads, code'[u] = code[u],
         writer' = u <=> writer = u, u \in readers' <=> u \in readers,
         \A m \in Contexts : owner'[m] = u <=> owner[m] = u
  PROVE  \E h \in Holding : Holds(u, h)' /\ Leads(code[u], h, Free)'
<1>1. PICK h \in Holding : Holds(u, h) /\ Leads(code[u], h, Free)
  BY DEF LockInv, Disciplined
<1>2. Holds(u, h)' BY <1>1 DEF Holds
<1> QED BY <1>1, <1>2

\* An instruction of t that changes the locks as Exec says.
LEMMA InstructionDone ==
  ASSUME LockInv, NEW t \in Threads, code[t] # <<>>, code'[t] = Tail(code[t]),
         \A h, k \in Holding : Holds(t, h) /\ Exec(h, Head(code[t]), k) => Holds(t, k)'
  PROVE  \E h \in Holding : Holds(t, h)' /\ Leads(code[t], h, Free)'
<1>1. PICK h \in Holding, k \in Holding :
        /\ Holds(t, h) /\ Exec(h, Head(code[t]), k) /\ Leads(Tail(code[t]), k, Free)
  BY NextInstruction
<1>2. Holds(t, k)' BY <1>1
<1> QED BY <1>1, <1>2

\* An instruction is known by its name.
LEMMA Named ==
  ASSUME NEW i \in Instructions
  PROVE  /\ i[1] = "RLock" => i = RLock
         /\ i[1] = "RUnlock" => i = RUnlock
         /\ i[1] = "WLock" => i = WLock
         /\ i[1] = "WUnlock" => i = WUnlock
         /\ i[1] = "CDP" => i = CDP
         /\ i[1] = "Lock" => i[2] \in Contexts /\ i = Lock(i[2])
         /\ i[1] = "Unlock" => i[2] \in Contexts /\ i = Unlock(i[2])
BY DEF Instructions, RLock, RUnlock, WLock, WUnlock, CDP, Lock, Unlock

\* What the discipline says of each kind of instruction.
LEMMA ExecOf ==
  ASSUME NEW h \in Holding, NEW k \in Holding, NEW i, Exec(h, i, k)
  PROVE  /\ i = RLock => h.pool = "none" /\ k.pool = "read" /\ k.ctx = h.ctx
                         /\ (Ordered => h.ctx = None)
         /\ i = RUnlock => h.pool = "read" /\ k.pool = "none" /\ k.ctx = h.ctx
         /\ i = WLock => h.pool = "none" /\ h.ctx = None /\ k.pool = "write" /\ k.ctx = None
         /\ i = WUnlock => h.pool = "write" /\ h.ctx = None /\ k.pool = "none" /\ k.ctx = None
         /\ i = CDP => h.pool # "read" /\ h.ctx = None /\ k = h
         /\ \A m \in Contexts :
              /\ i = Lock(m) => h.ctx = None /\ k.pool = h.pool /\ k.ctx = m
              /\ i = Unlock(m) => h.ctx = m /\ k.pool = h.pool /\ k.ctx = None
BY DEF Exec, In, Free, RLock, RUnlock, WLock, WUnlock, CDP, Lock, Unlock

\* Every step keeps each part of the invariant.
LEMMA TypesStep ==
  ASSUME LockInv, Next
  PROVE  LockTypes'
<1> USE DEF LockInv, LockTypes, Exclusion
<1>0. \A t \in Threads : code[t] # <<>> => Tail(code[t]) \in Seq(Instructions) OBVIOUS
<1>1. ASSUME NEW t \in Threads, Start(t) PROVE LockTypes'
  <2>1. PICK op \in Operations : \E c \in Code[op] : code' = [code EXCEPT ![t] = c]
    BY <1>1 DEF Start
  <2>2. PICK c \in Code[op] : code' = [code EXCEPT ![t] = c] BY <2>1
  <2>3. c \in Seq(Instructions) BY CodeLeads DEF Leads
  <2> QED BY <1>1, <2>2, <2>3 DEF Start
<1>2. ASSUME NEW t \in Threads, EnterRead(t) PROVE LockTypes'
  BY <1>0, <1>2 DEF EnterRead, At, Done
<1>3. ASSUME NEW t \in Threads, LeaveRead(t) PROVE LockTypes'
  BY <1>0, <1>3 DEF LeaveRead, At, Done
<1>4. ASSUME NEW t \in Threads, AnnounceWrite(t) PROVE LockTypes'
  BY <1>4 DEF AnnounceWrite
<1>5. ASSUME NEW t \in Threads, EnterWrite(t) PROVE LockTypes'
  BY <1>0, <1>5, NoneAssumption DEF EnterWrite, At, Done
<1>6. ASSUME NEW t \in Threads, LeaveWrite(t) PROVE LockTypes'
  <2>1. \A u \in Threads : u = t \/ u \in waiting => Tail(code[u]) \in Seq(Instructions)
    BY <1>0, <1>6 DEF LeaveWrite, At
  <2> QED BY <1>6, <2>1 DEF LeaveWrite
<1>7. ASSUME NEW t \in Threads, LockContext(t) PROVE LockTypes'
  BY <1>0, <1>7 DEF LockContext, At, Done
<1>8. ASSUME NEW t \in Threads, UnlockContext(t) PROVE LockTypes'
  BY <1>0, <1>8 DEF UnlockContext, At, Done
<1>9. ASSUME NEW t \in Threads, CallCDP(t) PROVE LockTypes'
  BY <1>0, <1>9 DEF CallCDP, At, Done
<1> QED BY <1>1, <1>2, <1>3, <1>4, <1>5, <1>6, <1>7, <1>8, <1>9, Next DEF Next, Step

\* A step takes its instruction off a disciplined list, and a call begins one.
LEMMA DisciplinedStep ==
  ASSUME LockInv, Next
  PROVE  Disciplined'
<1> DEFINE Goes(u) == \E h \in Holding : Holds(u, h)' /\ Leads(code[u], h, Free)'
<1>0. LockTypes /\ Exclusion BY DEF LockInv
<1>a. (\A u \in Threads : Goes(u)) => Disciplined' BY DEF Disciplined
<1>b. \A t \in Threads : \A i : At(t, i) =>
        code[t] # <<>> /\ Head(code[t]) \in Instructions /\ Head(code[t])[1] = i
  BY NextInstruction DEF At
<1>c. \A t \in Threads : Done(t) =>
        code'[t] = Tail(code[t]) /\ \A u \in Threads \ {t} : code'[u] = code[u]
  BY <1>0 DEF LockTypes, Done
<1> HIDE DEF Goes
<1>1. ASSUME NEW t \in Threads, Start(t), NEW u \in Threads PROVE Goes(u)
  <2>1. PICK op \in Operations : \E c \in Code[op] : code' = [code EXCEPT ![t] = c]
    BY <1>1 DEF Start
  <2>2. PICK c \in Code[op] : code' = [code EXCEPT ![t] = c] BY <2>1
  <2>3. CASE u # t
    <3>1. code'[u] = code[u] BY <1>0, <2>2, <2>3 DEF LockTypes
    <3> QED BY <1>1, <3>1, OthersHold DEF Start, Goes
  <2>4. CASE u = t
    <3>1. code'[u] = c /\ code[u] = <<>> BY <1>0, <1>1, <2>2, <2>4 DEF LockTypes, Start
    <3>2. PICK h \in Holding : Holds(u, h) /\ Leads(code[u], h, Free)
      BY DEF LockInv, Disciplined
    <3>3. h = Free BY <3>1, <3>2, LeadsEmpty
    <3>4. Holds(u, h)' BY <1>1, <3>2 DEF Start, Holds
    <3>5. Leads(c, Free, Free) BY CodeLeads
    <3> QED BY <3>1, <3>3, <3>4, <3>5 DEF Goes, Free, Holding
  <2> QED BY <2>3, <2>4
<1>2. ASSUME NEW t \in Threads, EnterRead(t), NEW u \in Threads PROVE Goes(u)
  <2>1. CASE Done(t) /\ readers' = readers \cup {t} /\ writer = None
    <3>1. CASE u # t BY <1>2, <1>c, <2>1, <3>1, OthersHold DEF EnterRead, Goes
    <3>2. CASE u = t
      <4>1. Head(code[t]) = RLock /\ code[t] # <<>> BY <1>2, <1>b, Named DEF EnterRead
      <4>2. \A h, k \in Holding : Holds(t, h) /\ Exec(h, Head(code[t]), k) => Holds(t, k)'
        BY <1>2, <2>1, <4>1, ExecOf, NoneAssumption DEF Holds, EnterRead
      <4> QED BY <1>c, <2>1, <3>2, <4>1, <4>2, InstructionDone DEF Goes
    <3> QED BY <3>1, <3>2
  <2>2. CASE UNCHANGED <<readers, code>>
    BY <1>2, <2>2, OthersHold DEF EnterRead, Goes
  <2> QED BY <1>2, <2>1, <2>2 DEF EnterRead
<1>3. ASSUME NEW t \in Threads, LeaveRead(t), NEW u \in Threads PROVE Goes(u)
  <2>1. CASE u # t BY <1>3, <1>c, <2>1, OthersHold DEF LeaveRead, Goes
  <2>2. CASE u = t
    <3>1. Head(code[t]) = RUnlock /\ code[t] # <<>> BY <1>3, <1>b, Named DEF LeaveRead
    <3>2. \A h, k \in Holding : Holds(t, h) /\ Exec(h, Head(code[t]), k) => Holds(t, k)'
      BY <1>3, <3>1, ExecOf DEF Holds, LeaveRead
    <3> QED BY <1>3, <1>c, <2>2, <3>1, <3>2, InstructionDone DEF LeaveRead, Goes
  <2> QED BY <2>1, <2>2
<1>4. ASSUME NEW t \in Threads, AnnounceWrite(t), NEW u \in Threads PROVE Goes(u)
  BY <1>4, OthersHold DEF AnnounceWrite, Goes
<1>5. ASSUME NEW t \in Threads, EnterWrite(t), NEW u \in Threads PROVE Goes(u)
  <2>1. At(t, "WLock") /\ writer = None /\ t # None /\ u # None
    BY <1>0, <1>5, NoneAssumption DEF EnterWrite, Exclusion
  <2>2. CASE u # t BY <1>5, <1>c, <2>1, <2>2, OthersHold DEF EnterWrite, Goes
  <2>3. CASE u = t
    <3>1. Head(code[t]) = WLock /\ code[t] # <<>> BY <2>1, <1>b, Named
    <3>2. \A h, k \in Holding : Holds(t, h) /\ Exec(h, Head(code[t]), k) => Holds(t, k)'
      BY <1>5, <3>1, ExecOf DEF Holds, EnterWrite
    <3> QED BY <1>5, <1>c, <2>3, <3>1, <3>2, InstructionDone DEF EnterWrite, Goes
  <2> QED BY <2>2, <2>3
<1>6. ASSUME NEW t \in Threads, LeaveWrite(t), NEW u \in Threads PROVE Goes(u)
  <2>1. Head(code[t]) = WUnlock /\ code[t] # <<>> BY <1>6, <1>b, Named DEF LeaveWrite
  <2>2. writer = t
    <3>1. PICK h \in Holding, k \in Holding : Holds(t, h) /\ Exec(h, Head(code[t]), k)
      BY <2>1, NextInstruction
    <3> QED BY <2>1, <3>1, ExecOf DEF Holds
  <2>3. readers = {} BY <1>0, <2>2, NoneAssumption DEF Exclusion
  <2>4. t \notin waiting
    BY <1>0, <2>1 DEF Exclusion, At, WUnlock
  <2>5. /\ code'[u] = IF u = t \/ u \in waiting THEN Tail(code[u]) ELSE code[u]
        /\ readers' = waiting /\ writer' = None /\ owner' = owner
    BY <1>6 DEF LeaveWrite
  <2>6. CASE u = t
    <3>1. \A h, k \in Holding : Holds(t, h) /\ Exec(h, Head(code[t]), k) => Holds(t, k)'
      BY <2>1, <2>4, <2>5, ExecOf, NoneAssumption DEF Holds
    <3> QED BY <2>1, <2>5, <2>6, <3>1, InstructionDone DEF Goes
  <2>7. CASE u # t /\ u \in waiting
    <3>1. Head(code[u]) = RLock /\ code[u] # <<>> BY <1>0, <1>b, <2>7, Named DEF Exclusion
    <3>2. \A h, k \in Holding : Holds(u, h) /\ Exec(h, Head(code[u]), k) => Holds(u, k)'
      BY <2>5, <2>7, <3>1, ExecOf, NoneAssumption DEF Holds
    <3> QED BY <2>5, <2>7, <3>1, <3>2, InstructionDone DEF Goes
  <2>8. CASE u # t /\ u \notin waiting
    BY <2>2, <2>3, <2>5, <2>8, NoneAssumption, OthersHold DEF Goes
  <2> QED BY <2>6, <2>7, <2>8
<1>7. ASSUME NEW t \in Threads, LockContext(t), NEW u \in Threads PROVE Goes(u)
  <2>1. PICK m \in Contexts : /\ Head(code[t]) = Lock(m) /\ code[t] # <<>>
                              /\ owner[m] = None /\ owner' = [owner EXCEPT ![m] = t]
    BY <1>7, <1>b, Named DEF LockContext
  <2>2. \A x \in Contexts : owner'[x] = IF x = m THEN t ELSE owner[x]
    BY <1>0, <2>1 DEF LockTypes
  <2>3. CASE u # t
    BY <1>7, <1>c, <2>1, <2>2, <2>3, NoneAssumption, OthersHold DEF LockContext, Goes
  <2>4. CASE u = t
    <3>1. \A h, k \in Holding : Holds(t, h) /\ Exec(h, Head(code[t]), k) => Holds(t, k)'
      BY <1>7, <2>1, <2>2, ExecOf, NoneAssumption DEF Holds, LockContext
    <3> QED BY <1>7, <1>c, <2>1, <2>4, <3>1, InstructionDone DEF LockContext, Goes
  <2> QED BY <2>3, <2>4
<1>8. ASSUME NEW t \in Threads, UnlockContext(t), NEW u \in Threads PROVE Goes(u)
  <2>1. PICK m \in Contexts : /\ Head(code[t]) = Unlock(m) /\ code[t] # <<>>
                              /\ owner' = [owner EXCEPT ![m] = None]
    BY <1>8, <1>b, Named DEF UnlockContext
  <2>2. \A x \in Contexts : owner'[x] = IF x = m THEN None ELSE owner[x]
    BY <1>0, <2>1 DEF LockTypes
  <2>3. owner[m] = t
    <3>1. PICK h \in Holding, k \in Holding : Holds(t, h) /\ Exec(h, Head(code[t]), k)
      BY <2>1, NextInstruction
    <3> QED BY <2>1, <3>1, ExecOf DEF Holds
  <2>4. CASE u # t
    BY <1>8, <1>c, <2>2, <2>3, <2>4, NoneAssumption, OthersHold DEF UnlockContext, Goes
  <2>5. CASE u = t
    <3>1. \A h, k \in Holding : Holds(t, h) /\ Exec(h, Head(code[t]), k) => Holds(t, k)'
      BY <1>8, <2>1, <2>2, <2>3, ExecOf, NoneAssumption DEF Holds, UnlockContext
    <3> QED BY <1>8, <1>c, <2>1, <2>5, <3>1, InstructionDone DEF UnlockContext, Goes
  <2> QED BY <2>4, <2>5
<1>9. ASSUME NEW t \in Threads, CallCDP(t), NEW u \in Threads PROVE Goes(u)
  <2>1. CASE u # t BY <1>9, <1>c, <2>1, OthersHold DEF CallCDP, Goes
  <2>2. CASE u = t
    <3>1. Head(code[t]) = CDP /\ code[t] # <<>> BY <1>9, <1>b, Named DEF CallCDP
    <3>2. \A h, k \in Holding : Holds(t, h) /\ Exec(h, Head(code[t]), k) => Holds(t, k)'
      BY <1>9, <3>1, ExecOf DEF Holds, CallCDP
    <3> QED BY <1>9, <1>c, <2>2, <3>1, <3>2, InstructionDone DEF CallCDP, Goes
  <2> QED BY <2>1, <2>2
<1> QED
  <2>1. PICK t \in Threads : Start(t) \/ Step(t) BY DEF Next
  <2>2. \A u \in Threads : Goes(u)
    BY <1>1, <1>2, <1>3, <1>4, <1>5, <1>6, <1>7, <1>8, <1>9, <2>1 DEF Step
  <2> QED BY <1>a, <2>2

\* Every step keeps a writer alone and who waits at what it waits for.
LEMMA ExclusionStep ==
  ASSUME LockInv, Next
  PROVE  Exclusion'
<1> USE NoneAssumption DEF LockInv, LockTypes, Exclusion
<1>0. \A t \in Threads : Done(t) => \A u \in Threads \ {t} : code'[u] = code[u]
  BY DEF Done
<1>1. ASSUME NEW t \in Threads, Start(t) PROVE Exclusion'
  <2>1. \A u \in Threads : code[u] # <<>> => code'[u] = code[u] BY <1>1 DEF Start
  <2> QED BY <1>1, <2>1 DEF Start, At
<1>2. ASSUME NEW t \in Threads, EnterRead(t) PROVE Exclusion'
  BY <1>0, <1>2 DEF EnterRead, At
<1>3. ASSUME NEW t \in Threads, LeaveRead(t) PROVE Exclusion'
  BY <1>0, <1>3 DEF LeaveRead, At
<1>4. ASSUME NEW t \in Threads, AnnounceWrite(t) PROVE Exclusion'
  BY <1>4 DEF AnnounceWrite, At
<1>5. ASSUME NEW t \in Threads, EnterWrite(t) PROVE Exclusion'
  BY <1>0, <1>5 DEF EnterWrite, At
<1>6. ASSUME NEW t \in Threads, LeaveWrite(t) PROVE Exclusion'
  BY <1>6 DEF LeaveWrite, At
<1>7. ASSUME NEW t \in Threads, LockContext(t) PROVE Exclusion'
  BY ZenonT(30), <1>0, <1>7 DEF LockContext, At
<1>8. ASSUME NEW t \in Threads, UnlockContext(t) PROVE Exclusion'
  BY <1>0, <1>8 DEF UnlockContext, At
<1>9. ASSUME NEW t \in Threads, CallCDP(t) PROVE Exclusion'
  BY <1>0, <1>9 DEF CallCDP, At
<1> QED BY <1>1, <1>2, <1>3, <1>4, <1>5, <1>6, <1>7, <1>8, <1>9, Next DEF Next, Step

LEMMA LocksHold == Spec => []LockInv
<1>1. LockInv /\ [Next]_vars => LockInv'
  <2> SUFFICES ASSUME LockInv, [Next]_vars PROVE LockInv' OBVIOUS
  <2>1. CASE Next
    BY <2>1, TypesStep, DisciplinedStep, ExclusionStep DEF LockInv
  <2>2. CASE UNCHANGED vars
    BY <2>2 DEF vars, LockInv, LockTypes, Disciplined, Holds, Exclusion, At
  <2> QED BY <2>1, <2>2
<1> QED BY <1>1, InitLocks, PTL DEF Spec

-----------------------------------------------------------------------------
(* The theorems.                                                           *)

\* The lock order of the comment of ContextPool keeps the operations free of
\* deadlock when none of them reads the stealth profile with a context locked.
THEOREM OrderedIsDeadlockFree ==
  ASSUME "reserve" \notin Operations
  PROVE  Spec => []DeadlockFree
<1>1. LockInv => DeadlockFree
  <2> SUFFICES ASSUME LockInv, NEW t \in Threads, NEW m \in Contexts,
                      owner[m] = t, WaitsForPool(t)
               PROVE  FALSE
    BY DEF DeadlockFree
  <2>1. At(t, "RLock") \/ At(t, "WLock")
    BY NoneAssumption DEF LockInv, Exclusion, WaitsForPool
  <2>2. PICK h \in Holding, k \in Holding :
          Holds(t, h) /\ Head(code[t]) \in Instructions /\ Exec(h, Head(code[t]), k)
    BY <2>1, NextInstruction DEF At
  <2>3. Head(code[t]) \in {RLock, WLock} BY <2>1, <2>2, Named DEF At
  <2>4. h.ctx = None BY <2>2, <2>3, ExecOf DEF Ordered
  <2> QED BY <2>2, <2>4, NoneAssumption DEF Holds
<1> QED BY <1>1, LocksHold, PTL

\* No operation calls Chrome with a context's Mu or the read lock in hand.
THEOREM NoCallsUnderLocks == Spec => []NoCallUnderContextLock
<1>1. LockInv => NoCallUnderContextLock
  <2> SUFFICES ASSUME LockInv, NEW t \in Threads, At(t, "CDP")
               PROVE  t \notin readers /\ \A m \in Contexts : owner[m] # t
    BY DEF NoCallUnderContextLock
  <2>1. PICK h \in Holding, k \in Holding :
          Holds(t, h) /\ Head(code[t]) \in Instructions /\ Exec(h, Head(code[t]), k)
    BY NextInstruction DEF At
  <2>2. Head(code[t]) = CDP BY <2>1, Named DEF At
  <2>3. h.pool # "read" /\ h.ctx = None BY <2>1, <2>2, ExecOf
  <2> QED BY <2>1, <2>3, NoneAssumption DEF Holds
<1> QED BY <1>1, LocksHold, PTL

\* A goroutine that has no operation under way holds nothing, and a writer of
\* contextsMu is alone.
THEOREM LocksReleased ==
  Spec => [](/\ \A t \in Threads : code[t] = <<>> =>
                  t \notin readers /\ writer # t /\ \A m \in Contexts : owner[m] # t
             /\ writer # None => readers = {})
<1> DEFINE P == /\ \A t \in Threads : code[t] = <<>> =>
                     t \notin readers /\ writer # t /\ \A m \in Contexts : owner[m] # t
                /\ writer # None => readers = {}
<1>1. LockInv => P
  <2> SUFFICES ASSUME LockInv, NEW t \in Threads, code[t] = <<>>
               PROVE  t \notin readers /\ writer # t /\ \A m \in Contexts : owner[m] # t
    BY DEF LockInv, Exclusion
  <2>1. PICK h \in Holding : Holds(t, h) /\ Leads(code[t], h, Free)
    BY DEF LockInv, Disciplined
  <2>2. h = Free BY <2>1, LeadsEmpty
  <2> QED BY <2>1, <2>2, NoneAssumption DEF Holds, Free
<1> QED BY <1>1, LocksHold, PTL
=============================================================================
