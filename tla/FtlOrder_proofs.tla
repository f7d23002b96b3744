--------------------------- MODULE FtlOrder_proofs --------------------------
(***************************************************************************)
(* One-page commands of a kind finish in the order they were accepted, for  *)
(* every size of the tables and queues.  All the places a command passes    *)
(* are seen as one family of queues of host commands: the task queues,      *)
(* under their status, and the four places of an EMU_sq.  The inductive     *)
(* invariant OrderInv compares the places of any two commands; it needs the *)
(* invariant IInv of FtlPipeline_proofs.                                    *)
(***************************************************************************)
EXTENDS FtlPipeline_proofs

LastPlace == HCE_FINISH + 4
Place == HCE_CHECK_CACHE .. LastPlace
SqPlace(a) == HCE_FINISH + a

Hcmds(q) == [k \in 1 .. Len(q) |-> q[k].hcmd_index]

\* While TO_SQ is drained its first cnt commands have not been handled: those
\* behind them were queued again and are their elders.
Draining == pc = "task" /\ i = HCE_TO_SQ
Turned(q, n) == [k \in 1 .. Len(q) |-> IF k <= Len(q) - n THEN q[k + n] ELSE q[k - (Len(q) - n)]]
InTurn == IF Draining THEN Turned(tq[HCE_TO_SQ], cnt) ELSE tq[HCE_TO_SQ]

\* The queues q and the places Q of EMU_sqs side by side.
Plain(q, Q) == [p \in Place |-> IF p \in Status THEN q[p] ELSE Hcmds(Q[p - HCE_FINISH])]
Line == [Plain(tq, Sqs) EXCEPT ![HCE_TO_SQ] = InTurn]

\* How far a command of kind op has come when it is in place p.
Stage(op, p) ==
  CASE p = HCE_CHECK_CACHE -> 1
    [] p = HCE_TO_SQ -> IF op = HCE_READ THEN 2 ELSE 3
    [] p = HCE_DATAMOVED -> IF op = HCE_READ THEN 8 ELSE 2
    [] p = HCE_FROM_CQ -> IF op = HCE_READ THEN 7 ELSE 8
    [] p = HCE_FINISH -> 9
    [] OTHER -> IF op = HCE_READ THEN p - 2 ELSE p - 1

\* A command of kind op at position a of place p is ahead of one at position b
\* of place r: it has come further, or is earlier in the same queue.
Ahead(op, p, a, r, b) == (p = r /\ a < b) \/ Stage(op, p) > Stage(op, r)

\* Of two commands of a kind in the queues L, the one ahead was accepted
\* earlier; m is the table of host commands.
InOrder(L, m) ==
  \A p, r \in Place : \A a \in 1 .. Len(L[p]), b \in 1 .. Len(L[r]) :
    m[L[p][a]].op_code = m[L[r][b]].op_code /\ Ahead(m[L[p][a]].op_code, p, a, r, b)
      => m[L[p][a]].emu_id < m[L[r][b]].emu_id

\* A drain of TO_SQ only queues a command again once no SQ entry is free, and
\* none is freed before CQ polling.
RetryInv ==
  /\ Draining /\ cnt < Len(tq[HCE_TO_SQ]) => sq_bitmap = SqIndex
  /\ pc \in {"send_lock", "send"} => Len(tq[HCE_TO_SQ]) = cnt - 1

\* emu_c is the youngest identifier handed out.
IdInv == \A h \in hcmd_map : hcmd[h].emu_id <= emu_c

Ordered == InOrder(Line, hcmd)

OrderInv == RetryInv /\ IdInv /\ Ordered

-----------------------------------------------------------------------------
\* The places of a kind are distinct stages.
LEMMA StageIsPlace ==
  ASSUME NEW op \in Ops, NEW p \in Place, NEW r \in Place
  PROVE  /\ Stage(op, p) \in 1 .. 9
         /\ Stage(op, p) = Stage(op, r) => p = r
  BY DEF Stage, Place, Ops, HCE_READ, HCE_WRITE, LastPlace,
         HCE_CHECK_CACHE, HCE_TO_SQ, HCE_DATAMOVED, HCE_FROM_CQ, HCE_FINISH

\* Queues of host commands whose entries are allocated.
Filled(L, m) ==
  /\ L \in [Place -> Seq(Hcmd)] /\ m \in [Hcmd -> HcmdEntry]
  /\ \A p \in Place : \A a \in 1 .. Len(L[p]) : m[L[p][a]].op_code \in Ops

\* Passing the head of a queue on to the next stage of its kind keeps the order.
LEMMA OrderMove ==
  ASSUME NEW L, NEW m, Filled(L, m), InOrder(L, m), NEW s \in Place, NEW t \in Place, L[s] # << >>,
         Stage(m[Head(L[s])].op_code, t) = Stage(m[Head(L[s])].op_code, s) + 1
  PROVE  InOrder(Enqueue(Dequeue(L, s), t, Head(L[s])), m)
  <1> DEFINE h == Head(L[s])
             op == m[h].op_code
             n == Len(L[t])
             R == Enqueue(Dequeue(L, s), t, h)
  <1>0. L \in [Place -> Seq(Hcmd)] /\ m \in [Hcmd -> HcmdEntry] /\ L[s] \in Seq(Hcmd)
    BY DEF Filled
  <1>1. /\ Len(L[s]) \in Nat /\ Len(L[s]) >= 1 /\ h = L[s][1] /\ h \in Hcmd
        /\ Tail(L[s]) \in Seq(Hcmd) /\ Len(Tail(L[s])) = Len(L[s]) - 1
        /\ \A k \in 1 .. Len(L[s]) - 1 : Tail(L[s])[k] = L[s][k + 1]
    BY <1>0
  <1>2. op \in Ops
    BY <1>1 DEF Filled
  <1>3. s # t
    BY <1>2, StageIsPlace
  <1>4. R = [L EXCEPT ![s] = Tail(L[s]), ![t] = Append(L[t], h)]
    BY <1>0, <1>3 DEF Enqueue, Dequeue
  <1>5. /\ R[s] = Tail(L[s]) /\ R[t] = Append(L[t], h)
        /\ \A p \in Place : p # s /\ p # t => R[p] = L[p]
    BY <1>0, <1>3, <1>4
  <1>6. /\ n \in Nat /\ Len(R[t]) = n + 1 /\ R[t][n + 1] = h
        /\ \A k \in 1 .. n : R[t][k] = L[t][k]
    <2>1. L[t] \in Seq(Hcmd)
      BY <1>0
    <2> QED BY <1>1, <1>5, <2>1, RangeAppend
  <1> HIDE DEF R, h, n
  \* Where a command of R was in L.
  <1>7. ASSUME NEW p \in Place, NEW a \in 1 .. Len(R[p])
        PROVE  \/ p = t /\ a = n + 1 /\ R[p][a] = h
               \/ p = s /\ a + 1 \in 1 .. Len(L[s]) /\ R[p][a] = L[s][a + 1]
               \/ p # s /\ a \in 1 .. Len(L[p]) /\ R[p][a] = L[p][a] /\ (p = t => a <= n)
    <2>1. CASE p = s
      <3>1. a \in 1 .. Len(L[s]) - 1 /\ R[p][a] = Tail(L[s])[a]
        BY <1>1, <1>5, <2>1
      <3>2. a + 1 \in 1 .. Len(L[s]) /\ R[p][a] = L[s][a + 1]
        BY <1>1, <3>1
      <3> QED BY <2>1, <3>2
    <2>2. CASE p = t
      BY <1>3, <1>6, <2>2 DEF n
    <2>3. CASE p # s /\ p # t
      BY <1>5, <2>3
    <2> QED BY <2>1, <2>2, <2>3
  <1> SUFFICES ASSUME NEW p \in Place, NEW r \in Place, NEW a \in 1 .. Len(R[p]), NEW b \in 1 .. Len(R[r]),
                      m[R[p][a]].op_code = m[R[r][b]].op_code, Ahead(m[R[p][a]].op_code, p, a, r, b)
               PROVE  m[R[p][a]].emu_id < m[R[r][b]].emu_id
    BY DEF InOrder, R, h
  <1>8. Len(R[p]) \in Nat /\ Len(R[r]) \in Nat /\ a \in Nat /\ b \in Nat
    BY <1>0, <1>1, <1>5, <1>6
  <1>9. Stage(op, t) = Stage(op, s) + 1 /\ \A u \in Place : Stage(op, u) \in 1 .. 9
    BY <1>2, StageIsPlace DEF h
  <1>p. \/ p = t /\ a = n + 1 /\ R[p][a] = h
        \/ p = s /\ a + 1 \in 1 .. Len(L[s]) /\ R[p][a] = L[s][a + 1]
        \/ p # s /\ a \in 1 .. Len(L[p]) /\ R[p][a] = L[p][a] /\ (p = t => a <= n)
    BY <1>7
  <1>r. \/ r = t /\ b = n + 1 /\ R[r][b] = h
        \/ r = s /\ b + 1 \in 1 .. Len(L[s]) /\ R[r][b] = L[s][b + 1]
        \/ r # s /\ b \in 1 .. Len(L[r]) /\ R[r][b] = L[r][b] /\ (r = t => b <= n)
    BY <1>7
  <1>10. CASE p = t /\ a = n + 1 /\ R[p][a] = h
    <2>1. ~(r = t /\ b = n + 1)
      BY <1>9, <1>10, <1>6 DEF Ahead
    <2>2. Stage(op, r) < Stage(op, t) 
      BY <1>10, <1>6, <1>8, <1>9, <2>1 DEF Ahead
    <2>3. CASE r = s
      <3>1. b + 1 \in 1 .. Len(L[s]) /\ R[r][b] = L[s][b + 1] /\ 1 \in 1 .. Len(L[s]) /\ 1 < b + 1
        BY <1>1, <1>3, <1>r, <1>8, <2>3
      <3> QED BY <1>1, <1>10, <3>1, <2>3 DEF InOrder, Ahead
    <2>4. CASE r # s
      <3>1. b \in 1 .. Len(L[r]) /\ R[r][b] = L[r][b]
        BY <1>r, <2>1, <2>4
      <3>2. Stage(op, s) > Stage(op, r)
        BY <1>2, <1>9, <2>2, <2>4, StageIsPlace
      <3>3. 1 \in 1 .. Len(L[s])
        BY <1>1
      <3>4. Ahead(m[L[s][1]].op_code, s, 1, r, b)
        BY <1>1, <3>2 DEF Ahead
      <3> QED BY <1>1, <1>10, <3>1, <3>3, <3>4 DEF InOrder
    <2> QED BY <2>3, <2>4
  <1>11. CASE ~(p = t /\ a = n + 1) /\ r = t /\ b = n + 1
    <2>1. R[r][b] = h /\ 1 \in 1 .. Len(L[s])
      BY <1>1, <1>6, <1>11
    <2>2. Stage(op, p) > Stage(op, s)
      <3>1. m[R[p][a]].op_code = op
        BY <2>1
      <3>2. p = t \/ Stage(op, p) > Stage(op, t)
        BY <1>11, <3>1 DEF Ahead
      <3> QED BY <1>9, <3>2
    <2>3. p # s /\ a \in 1 .. Len(L[p]) /\ R[p][a] = L[p][a]
      <3>1. p # s
        BY <1>9, <2>2
      <3> QED BY <1>p, <1>11, <3>1
    <2> QED BY <1>1, <2>1, <2>2, <2>3, SMTT(30) DEF InOrder, Ahead
  <1>12. CASE ~(p = t /\ a = n + 1) /\ ~(r = t /\ b = n + 1)
    <2>1. PICK a0 \in 1 .. Len(L[p]) : R[p][a] = L[p][a0] /\ a0 = (IF p = s THEN a + 1 ELSE a)
      BY <1>p, <1>12
    <2>2. PICK b0 \in 1 .. Len(L[r]) : R[r][b] = L[r][b0] /\ b0 = (IF r = s THEN b + 1 ELSE b)
      BY <1>r, <1>12
    <2>3. Ahead(m[L[p][a0]].op_code, p, a0, r, b0)
      BY <1>8, <2>1, <2>2 DEF Ahead
    <2>4. m[L[p][a0]].op_code = m[L[r][b0]].op_code
      BY <2>1, <2>2
    <2>5. m[L[p][a0]].emu_id < m[L[r][b0]].emu_id
      BY <2>3, <2>4 DEF InOrder
    <2> QED BY <2>1, <2>2, <2>5
  <1> QED BY <1>6, <1>10, <1>11, <1>12

\* So does removing the head of a queue,
LEMMA OrderDrop ==
  ASSUME NEW L, NEW m, Filled(L, m), InOrder(L, m), NEW s \in Place, L[s] # << >>
  PROVE  InOrder(Dequeue(L, s), m)
  <1> DEFINE R == Dequeue(L, s)
  <1>0. L \in [Place -> Seq(Hcmd)] /\ L[s] \in Seq(Hcmd)
    BY DEF Filled
  <1>1. /\ Len(L[s]) \in Nat /\ Len(L[s]) >= 1
        /\ Len(Tail(L[s])) = Len(L[s]) - 1
        /\ \A k \in 1 .. Len(L[s]) - 1 : Tail(L[s])[k] = L[s][k + 1]
    BY <1>0
  <1>2. R[s] = Tail(L[s]) /\ \A p \in Place : p # s => R[p] = L[p]
    BY <1>0 DEF Dequeue
  <1> HIDE DEF R
  <1>3. ASSUME NEW p \in Place, NEW a \in 1 .. Len(R[p])
        PROVE  \E a0 \in 1 .. Len(L[p]) : R[p][a] = L[p][a0] /\ a0 = (IF p = s THEN a + 1 ELSE a)
    <2>1. CASE p = s
      <3>1. a \in 1 .. Len(L[s]) - 1 /\ R[p][a] = Tail(L[s])[a]
        BY <1>1, <1>2, <2>1
      <3>2. a + 1 \in 1 .. Len(L[s]) /\ R[p][a] = L[s][a + 1]
        BY <1>1, <3>1
      <3> QED BY <2>1, <3>2
    <2>2. CASE p # s
      BY <1>2, <2>2
    <2> QED BY <2>1, <2>2
  <1> SUFFICES ASSUME NEW p \in Place, NEW r \in Place, NEW a \in 1 .. Len(R[p]), NEW b \in 1 .. Len(R[r]),
                      m[R[p][a]].op_code = m[R[r][b]].op_code, Ahead(m[R[p][a]].op_code, p, a, r, b)
               PROVE  m[R[p][a]].emu_id < m[R[r][b]].emu_id
    BY DEF InOrder, R
  <1>4. PICK a0 \in 1 .. Len(L[p]) : R[p][a] = L[p][a0] /\ a0 = (IF p = s THEN a + 1 ELSE a)
    BY <1>3
  <1>5. PICK b0 \in 1 .. Len(L[r]) : R[r][b] = L[r][b0] /\ b0 = (IF r = s THEN b + 1 ELSE b)
    BY <1>3
  <1>6. Ahead(m[L[p][a0]].op_code, p, a0, r, b0)
    BY <1>4, <1>5 DEF Ahead
  <1>7. m[L[p][a0]].op_code = m[L[r][b0]].op_code
    BY <1>4, <1>5
  <1>8. m[L[p][a0]].emu_id < m[L[r][b0]].emu_id
    BY <1>6, <1>7 DEF InOrder
  <1> QED BY <1>4, <1>5, <1>8

\* and appending the youngest command to the first queue.
LEMMA OrderAccept ==
  ASSUME NEW L, NEW m, Filled(L, m), InOrder(L, m), NEW h \in Hcmd, m[h].op_code \in Ops,
         \A p \in Place : \A a \in 1 .. Len(L[p]) : m[L[p][a]].emu_id < m[h].emu_id
  PROVE  InOrder(Enqueue(L, HCE_CHECK_CACHE, h), m)
  <1> DEFINE c == HCE_CHECK_CACHE
             n == Len(L[c])
             R == Enqueue(L, c, h)
  <1>0. L \in [Place -> Seq(Hcmd)] /\ c \in Place
    BY DEF Filled, Place, HCE_CHECK_CACHE, HCE_FINISH, LastPlace
  <1>1. R[c] = Append(L[c], h) /\ \A p \in Place : p # c => R[p] = L[p]
    BY <1>0 DEF Enqueue
  <1>2. n \in Nat /\ Len(R[c]) = n + 1 /\ R[c][n + 1] = h /\ \A k \in 1 .. n : R[c][k] = L[c][k]
    <2>1. L[c] \in Seq(Hcmd)
      BY <1>0
    <2> QED BY <1>1, <2>1, RangeAppend
  <1> HIDE DEF R, c, n
  <1>3. ASSUME NEW p \in Place, NEW a \in 1 .. Len(R[p])
        PROVE  \/ p = c /\ a = n + 1 /\ R[p][a] = h
               \/ a \in 1 .. Len(L[p]) /\ R[p][a] = L[p][a] /\ (p = c => a <= n)
    BY <1>1, <1>2 DEF n
  <1>4. \A op \in Ops : \A p \in Place : Stage(op, c) = 1 /\ Stage(op, p) \in 1 .. 9
    <2>1. \A op \in Ops : \A p \in Place : Stage(op, p) \in 1 .. 9
      BY StageIsPlace
    <2>2. \A op \in Ops : Stage(op, c) = 1
      BY DEF Stage, c, HCE_CHECK_CACHE, HCE_TO_SQ, HCE_DATAMOVED, HCE_FROM_CQ, HCE_FINISH
    <2> QED BY <2>1, <2>2
  <1> SUFFICES ASSUME NEW p \in Place, NEW r \in Place, NEW a \in 1 .. Len(R[p]), NEW b \in 1 .. Len(R[r]),
                      m[R[p][a]].op_code = m[R[r][b]].op_code, Ahead(m[R[p][a]].op_code, p, a, r, b)
               PROVE  m[R[p][a]].emu_id < m[R[r][b]].emu_id
    BY DEF InOrder, R, c
  <1>p. \/ p = c /\ a = n + 1 /\ R[p][a] = h
        \/ a \in 1 .. Len(L[p]) /\ R[p][a] = L[p][a] /\ (p = c => a <= n)
    BY <1>3
  <1>r. \/ r = c /\ b = n + 1 /\ R[r][b] = h
        \/ b \in 1 .. Len(L[r]) /\ R[r][b] = L[r][b] /\ (r = c => b <= n)
    BY <1>3
  <1>5. CASE p = c /\ a = n + 1 /\ R[p][a] = h
    <2>1. r = c /\ b > n + 1
      BY <1>4, <1>5 DEF Ahead
    <2> QED BY <1>2, <1>r, <2>1
  <1>6. CASE ~(p = c /\ a = n + 1) /\ r = c /\ b = n + 1
    BY <1>2, <1>p, <1>6
  <1>7. CASE ~(p = c /\ a = n + 1) /\ ~(r = c /\ b = n + 1)
    <2>1. a \in 1 .. Len(L[p]) /\ R[p][a] = L[p][a] /\ b \in 1 .. Len(L[r]) /\ R[r][b] = L[r][b]
      BY <1>p, <1>r, <1>7
    <2>2. m[L[p][a]].op_code = m[L[r][b]].op_code /\ Ahead(m[L[p][a]].op_code, p, a, r, b)
      BY <2>1
    <2>3. m[L[p][a]].emu_id < m[L[r][b]].emu_id
      BY <2>1, <2>2 DEF InOrder
    <2> QED BY <2>1, <2>3
  <1> QED BY <1>2, <1>5, <1>6, <1>7

\* What the table says of the commands in the queues is all that counts.
LEMMA OrderSame ==
  ASSUME NEW L, NEW m, NEW k, InOrder(L, m),
         \A p \in Place : \A a \in 1 .. Len(L[p]) :
           k[L[p][a]].op_code = m[L[p][a]].op_code /\ k[L[p][a]].emu_id = m[L[p][a]].emu_id
  PROVE  InOrder(L, k)
  BY DEF InOrder

-----------------------------------------------------------------------------
(* The line of commands and what each step does to it.                      *)

\* The commands of EMU_sqs follow them.
LEMMA HcmdsFollow ==
  ASSUME NEW q \in Seq(EMU_sq)
  PROVE  /\ Hcmds(q) \in Seq(Hcmd) /\ Len(Hcmds(q)) = Len(q)
         /\ \A k \in 1 .. Len(q) : Hcmds(q)[k] = q[k].hcmd_index
         /\ \A e \in EMU_sq : Hcmds(Append(q, e)) = Append(Hcmds(q), e.hcmd_index)
         /\ q # << >> => /\ Hcmds(q) # << >> /\ Head(Hcmds(q)) = Head(q).hcmd_index
                         /\ Hcmds(Tail(q)) = Tail(Hcmds(q))
  <1>1. /\ Hcmds(q) \in Seq(Hcmd) /\ Len(Hcmds(q)) = Len(q)
        /\ \A k \in 1 .. Len(q) : Hcmds(q)[k] = q[k].hcmd_index
    <2>1. Len(q) \in Nat /\ \A k \in 1 .. Len(q) : q[k] \in EMU_sq
      OBVIOUS
    <2>2. \A k \in 1 .. Len(q) : q[k].hcmd_index \in Hcmd
      BY <2>1 DEF EMU_sq
    <2> QED BY <2>1, <2>2 DEF Hcmds
  <1>2. ASSUME NEW e \in EMU_sq PROVE Hcmds(Append(q, e)) = Append(Hcmds(q), e.hcmd_index)
    <2> DEFINE x == Hcmds(Append(q, e))
               y == Append(Hcmds(q), e.hcmd_index)
    <2>0. e.hcmd_index \in Hcmd
      BY DEF EMU_sq
    <2>1. /\ Append(q, e) \in Seq(EMU_sq) /\ Len(Append(q, e)) = Len(q) + 1 /\ Len(q) \in Nat
          /\ Append(q, e)[Len(q) + 1] = e /\ \A k \in 1 .. Len(q) : Append(q, e)[k] = q[k]
      BY RangeAppend
    <2>2. /\ y \in Seq(Hcmd) /\ Len(y) = Len(q) + 1
          /\ y[Len(q) + 1] = e.hcmd_index /\ \A k \in 1 .. Len(q) : y[k] = q[k].hcmd_index
      BY <1>1, <2>0, RangeAppend
    <2>3. x = [k \in 1 .. Len(q) + 1 |-> Append(q, e)[k].hcmd_index]
      BY <2>1 DEF Hcmds
    <2> HIDE DEF x, y
    <2>4. DOMAIN y = 1 .. Len(q) + 1 /\ y = [k \in 1 .. Len(q) + 1 |-> y[k]]
      BY <2>2
    <2>5. \A k \in 1 .. Len(q) + 1 : Append(q, e)[k].hcmd_index = y[k]
      BY <2>1, <2>2
    <2> QED BY <2>3, <2>4, <2>5 DEF x, y
  <1>3. ASSUME q # << >>
        PROVE  Hcmds(q) # << >> /\ Head(Hcmds(q)) = Head(q).hcmd_index /\ Hcmds(Tail(q)) = Tail(Hcmds(q))
    <2> DEFINE x == Hcmds(Tail(q))
               y == Tail(Hcmds(q))
    <2>1. /\ Tail(q) \in Seq(EMU_sq) /\ Len(Tail(q)) = Len(q) - 1 /\ Len(q) \in Nat /\ Len(q) >= 1
          /\ Head(q) = q[1] /\ \A k \in 1 .. Len(q) - 1 : Tail(q)[k] = q[k + 1]
      BY <1>3
    <2>2. Hcmds(q) # << >> /\ Head(Hcmds(q)) = Hcmds(q)[1] /\ 1 \in 1 .. Len(q)
      BY <1>1, <2>1
    <2>3. /\ y \in Seq(Hcmd) /\ Len(y) = Len(q) - 1
          /\ \A k \in 1 .. Len(q) - 1 : y[k] = Hcmds(q)[k + 1]
      BY <1>1, <2>1, <2>2
    <2>4. x = [k \in 1 .. Len(q) - 1 |-> Tail(q)[k].hcmd_index]
      BY <2>1 DEF Hcmds
    <2> HIDE DEF x, y
    <2>5. y = [k \in 1 .. Len(q) - 1 |-> y[k]]
      BY <2>1, <2>3
    <2>6. \A k \in 1 .. Len(q) - 1 : Tail(q)[k].hcmd_index = y[k]
      BY <1>1, <2>1, <2>3
    <2> QED BY <1>1, <2>1, <2>2, <2>4, <2>5, <2>6 DEF x, y
  <1> QED BY <1>1, <1>2, <1>3

\* The places are the task queues and those of an EMU_sq.
LEMMA PlaceFacts ==
  /\ Status \subseteq Place /\ HCE_TO_SQ \in Status
  /\ \A a \in 1 .. 4 : SqPlace(a) \in Place \ Status /\ SqPlace(a) - HCE_FINISH = a
  /\ \A p \in Place \ Status : p - HCE_FINISH \in 1 .. 4 /\ p = SqPlace(p - HCE_FINISH)
  BY DEF Status, Place, SqPlace, LastPlace, HCE_CHECK_CACHE, HCE_TO_SQ, HCE_FINISH

\* What each place of the line holds.
LEMMA PlainIs ==
  ASSUME NEW q \in [Status -> Seq(Hcmd)], NEW Q \in [1 .. 4 -> Seq(EMU_sq)]
  PROVE  /\ Plain(q, Q) \in [Place -> Seq(Hcmd)]
         /\ \A s \in Status : Plain(q, Q)[s] = q[s]
         /\ \A a \in 1 .. 4 : Plain(q, Q)[SqPlace(a)] = Hcmds(Q[a])
  <1>1. \A p \in Place \ Status : Hcmds(Q[p - HCE_FINISH]) \in Seq(Hcmd)
    <2>1. \A a \in 1 .. 4 : Q[a] \in Seq(EMU_sq)
      OBVIOUS
    <2>2. \A a \in 1 .. 4 : Hcmds(Q[a]) \in Seq(Hcmd)
      BY <2>1, HcmdsFollow
    <2> QED BY <2>2, PlaceFacts
  <1> QED BY <1>1, PlaceFacts DEF Plain

\* Taking from and appending to a queue, seen in the line.
LEMMA PlainQueue ==
  ASSUME NEW q \in [Status -> Seq(Hcmd)], NEW Q \in [1 .. 4 -> Seq(EMU_sq)], NEW s \in Status
  PROVE  /\ \A h \in Hcmd : Plain(Enqueue(q, s, h), Q) = Enqueue(Plain(q, Q), s, h)
         /\ Plain(Dequeue(q, s), Q) = Dequeue(Plain(q, Q), s)
  <1>1. s \in Place /\ Plain(q, Q)[s] = q[s]
    BY PlainIs, PlaceFacts
  <1> QED BY <1>1, PlaceFacts DEF Plain, Enqueue, Dequeue

\* Appending an EMU_sq, seen in the line.
LEMMA PlainSqs ==
  ASSUME NEW q \in [Status -> Seq(Hcmd)], NEW Q \in [1 .. 4 -> Seq(EMU_sq)], NEW a \in 1 .. 4
  PROVE  /\ \A e \in EMU_sq : Plain(q, Enqueue(Q, a, e)) = Enqueue(Plain(q, Q), SqPlace(a), e.hcmd_index)
         /\ Q[a] # << >> => Plain(q, Dequeue(Q, a)) = Dequeue(Plain(q, Q), SqPlace(a))
  <1>1. /\ SqPlace(a) \in Place /\ SqPlace(a) \notin Status /\ SqPlace(a) - HCE_FINISH = a
        /\ Plain(q, Q)[SqPlace(a)] = Hcmds(Q[a]) /\ Q[a] \in Seq(EMU_sq)
    BY PlainIs, PlaceFacts
  <1>2. \A p \in Place \ Status : p # SqPlace(a) => p - HCE_FINISH \in 1 .. 4 /\ p - HCE_FINISH # a
    BY PlaceFacts
  <1>3. ASSUME NEW e \in EMU_sq
        PROVE  Plain(q, Enqueue(Q, a, e)) = Enqueue(Plain(q, Q), SqPlace(a), e.hcmd_index)
    <2>1. Hcmds(Append(Q[a], e)) = Append(Hcmds(Q[a]), e.hcmd_index)
      BY <1>1, HcmdsFollow
    <2> QED BY <1>1, <1>2, <2>1 DEF Plain, Enqueue
  <1>4. ASSUME Q[a] # << >>
        PROVE  Plain(q, Dequeue(Q, a)) = Dequeue(Plain(q, Q), SqPlace(a))
    <2>1. Hcmds(Tail(Q[a])) = Tail(Hcmds(Q[a]))
      BY <1>1, <1>4, HcmdsFollow
    <2> QED BY <1>1, <1>2, <2>1 DEF Plain, Dequeue
  <1> QED BY <1>3, <1>4

\* Handing an EMU_sq over moves its command.
LEMMA PlainHandOver ==
  ASSUME NEW q \in [Status -> Seq(Hcmd)], NEW Q \in [1 .. 4 -> Seq(EMU_sq)],
         NEW a \in 1 .. 4, NEW b \in 1 .. 4, Q[a] # << >>
  PROVE  Plain(q, Enqueue(Dequeue(Q, a), b, Head(Q[a])))
           = Enqueue(Dequeue(Plain(q, Q), SqPlace(a)), SqPlace(b), Head(Plain(q, Q)[SqPlace(a)]))
  <1>1. Q[a] \in Seq(EMU_sq) /\ Plain(q, Q)[SqPlace(a)] = Hcmds(Q[a])
    BY PlainIs
  <1>2. Head(Q[a]) \in EMU_sq /\ Tail(Q[a]) \in Seq(EMU_sq)
    BY <1>1
  <1>3. Head(Plain(q, Q)[SqPlace(a)]) = Head(Q[a]).hcmd_index
    BY <1>1, HcmdsFollow
  <1>4. Dequeue(Q, a) \in [1 .. 4 -> Seq(EMU_sq)]
    BY <1>2 DEF Dequeue
  <1> DEFINE m == Dequeue(Q, a)
             e == Head(Q[a])
  <1> HIDE DEF m, e
  <1>5. Plain(q, Enqueue(m, b, e)) = Enqueue(Plain(q, m), SqPlace(b), e.hcmd_index)
    BY <1>2, <1>4, PlainSqs DEF m, e
  <1>6. Plain(q, m) = Dequeue(Plain(q, Q), SqPlace(a))
    BY PlainSqs DEF m
  <1> QED BY <1>3, <1>5, <1>6 DEF m, e

-----------------------------------------------------------------------------
\* A turned queue holds the same commands; nothing is turned when all or none
\* are still to be handled; queueing the head again does not change the turn.
LEMMA TurnedIs ==
  ASSUME NEW q \in Seq(Hcmd), NEW n \in 0 .. Len(q)
  PROVE  /\ Turned(q, n) \in Seq(Hcmd) /\ Len(Turned(q, n)) = Len(q)
         /\ Range(Turned(q, n)) = Range(q)
  <1> DEFINE N == Len(q)
             f == Turned(q, n)
  <1>1. N \in Nat /\ n \in Nat /\ n <= N /\ \A k \in 1 .. N : q[k] \in Hcmd
    OBVIOUS
  <1>2. ASSUME NEW k \in 1 .. N
        PROVE  \E l \in 1 .. N : f[k] = q[l]
    <2>1. CASE k <= N - n
      <3>1. k + n \in 1 .. N /\ f[k] = q[k + n]
        BY <1>1, <2>1 DEF Turned
      <3> QED BY <3>1
    <2>2. CASE ~(k <= N - n)
      <3>1. k - (N - n) \in 1 .. N /\ f[k] = q[k - (N - n)]
        BY <1>1, <2>2 DEF Turned
      <3> QED BY <3>1
    <2> QED BY <2>1, <2>2
  <1>3. ASSUME NEW l \in 1 .. N
        PROVE  \E k \in 1 .. N : f[k] = q[l]
    <2>1. CASE l <= n
      <3> DEFINE k == l + (N - n)
      <3>1. k \in 1 .. N /\ ~(k <= N - n) /\ k - (N - n) = l
        BY <1>1, <2>1
      <3>2. f[k] = q[k - (N - n)]
        BY <3>1 DEF Turned
      <3> QED BY <3>1, <3>2
    <2>2. CASE ~(l <= n)
      <3> DEFINE k == l - n
      <3>1. k \in 1 .. N /\ k <= N - n /\ k + n = l
        BY <1>1, <2>2
      <3>2. f[k] = q[k + n]
        BY <3>1 DEF Turned
      <3> QED BY <3>1, <3>2
    <2> QED BY <2>1, <2>2
  <1>4. DOMAIN f = 1 .. N /\ f = [k \in 1 .. N |-> f[k]]
    BY DEF Turned
  <1> HIDE DEF f
  <1>5. \A k \in 1 .. N : f[k] \in Hcmd
    BY <1>1, <1>2
  <1>6. f \in Seq(Hcmd) /\ Len(f) = N
    BY <1>1, <1>4, <1>5
  <1>7. /\ \A e : e \in Range(f) <=> \E k \in 1 .. N : f[k] = e
        /\ \A e : e \in Range(q) <=> \E k \in 1 .. N : q[k] = e
    BY <1>6, RangeIsIndexed
  <1>8. Range(f) = Range(q)
    BY <1>2, <1>3, <1>7
  <1> QED BY <1>6, <1>8 DEF f

\* A queue with nothing queued again, or nothing left, is in turn as it stands.
LEMMA TurnedNot ==
  ASSUME NEW q \in Seq(Hcmd)
  PROVE  Turned(q, 0) = q /\ Turned(q, Len(q)) = q
  <1>1. Len(q) \in Nat /\ q = [k \in 1 .. Len(q) |-> q[k]]
    OBVIOUS
  <1>2. \A k \in 1 .. Len(q) : /\ k <= Len(q) - 0 /\ k + 0 = k
                               /\ ~(k <= Len(q) - Len(q)) /\ k - (Len(q) - Len(q)) = k
    BY <1>1
  <1>3. Turned(q, 0) = q
    BY <1>1, <1>2 DEF Turned
  <1>4. Turned(q, Len(q)) = q
    BY <1>1, <1>2 DEF Turned
  <1> QED BY <1>3, <1>4

\* Queueing the head again keeps the turn.
LEMMA TurnedAgain ==
  ASSUME NEW q \in Seq(Hcmd), NEW n \in 1 .. Len(q)
  PROVE  Turned(Append(Tail(q), Head(q)), n - 1) = Turned(q, n)
  <1> DEFINE N == Len(q)
             r == Append(Tail(q), Head(q))
  <1>1. /\ N \in Nat /\ n \in Nat /\ 1 <= n /\ n <= N /\ q # << >>
    OBVIOUS
  <1>2. /\ Tail(q) \in Seq(Hcmd) /\ Len(Tail(q)) = N - 1 /\ Head(q) = q[1] /\ Head(q) \in Hcmd
        /\ \A k \in 1 .. N - 1 : Tail(q)[k] = q[k + 1]
    BY <1>1
  <1>3. Len(r) = N - 1 + 1 /\ r[N - 1 + 1] = Head(q) /\ \A k \in 1 .. N - 1 : r[k] = Tail(q)[k]
    BY <1>2, RangeAppend
  <1>4. Len(r) = N /\ r[N] = q[1] /\ \A k \in 1 .. N - 1 : r[k] = q[k + 1]
    <2>1. N - 1 + 1 = N
      BY <1>1
    <2> QED BY <1>2, <1>3, <2>1
  <1> HIDE DEF r
  <1>5. ASSUME NEW k \in 1 .. N
        PROVE  (IF k <= N - (n - 1) THEN r[k + (n - 1)] ELSE r[k - (N - (n - 1))])
                 = (IF k <= N - n THEN q[k + n] ELSE q[k - (N - n)])
    <2>1. CASE k <= N - n
      <3>1. k <= N - (n - 1) /\ k + (n - 1) \in 1 .. N - 1 /\ k + (n - 1) + 1 = k + n
        BY <1>1, <2>1
      <3>2. r[k + (n - 1)] = q[k + n]
        BY <1>4, <3>1
      <3> QED BY <2>1, <3>1, <3>2
    <2>2. CASE k = N - n + 1
      <3>1. k <= N - (n - 1) /\ k + (n - 1) = N /\ ~(k <= N - n) /\ k - (N - n) = 1
        BY <1>1, <2>2
      <3> QED BY <1>4, <3>1
    <2>3. CASE k > N - n + 1
      <3>1. /\ ~(k <= N - (n - 1)) /\ ~(k <= N - n)
            /\ k - (N - (n - 1)) \in 1 .. N - 1 /\ k - (N - (n - 1)) + 1 = k - (N - n)
        BY <1>1, <2>3
      <3>2. r[k - (N - (n - 1))] = q[k - (N - n)]
        BY <1>4, <3>1
      <3> QED BY <3>1, <3>2
    <2> QED BY <1>1, <2>1, <2>2, <2>3
  <1>6. Turned(r, n - 1) = [k \in 1 .. N |-> IF k <= N - (n - 1) THEN r[k + (n - 1)] ELSE r[k - (N - (n - 1))]]
    BY <1>4 DEF Turned
  <1>7. Turned(q, n) = [k \in 1 .. N |-> IF k <= N - n THEN q[k + n] ELSE q[k - (N - n)]]
    BY DEF Turned
  <1> QED BY <1>5, <1>6, <1>7 DEF r

\* The types of the line, and who is in it.
LEMMA LineFacts ==
  ASSUME IInv
  PROVE  /\ tq \in [Status -> Seq(Hcmd)] /\ Sqs \in [1 .. 4 -> Seq(EMU_sq)]
         /\ InTurn \in Seq(Hcmd) /\ Len(InTurn) = Len(tq[HCE_TO_SQ])
         /\ Range(InTurn) = Range(tq[HCE_TO_SQ])
         /\ Line \in [Place -> Seq(Hcmd)]
         /\ Line[HCE_TO_SQ] = InTurn
         /\ \A s \in Status : s # HCE_TO_SQ => Line[s] = tq[s]
         /\ \A a \in 1 .. 4 : Line[SqPlace(a)] = Hcmds(Sqs[a])
  <1>1. TypeOK /\ OnePlace /\ LoopInv
    BY DEF IInv, PlaceInv, ControlInv
  <1>2. tq \in [Status -> Seq(Hcmd)] /\ Sqs \in [1 .. 4 -> Seq(EMU_sq)]
    BY <1>1, SqsIsFamily DEF TypeOK, Family
  <1> DEFINE q == tq[HCE_TO_SQ]
  <1>3. q \in Seq(Hcmd) /\ Len(q) \in Nat /\ cnt \in Nat
    BY <1>1, <1>2, PlaceFacts DEF TypeOK
  <1>4. InTurn \in Seq(Hcmd) /\ Len(InTurn) = Len(q) /\ Range(InTurn) = Range(q)
    <2>1. CASE Draining
      <3>1. cnt \in 0 .. Len(q)
        BY <1>1, <1>3, <2>1 DEF Draining, LoopInv, SampleCovered
      <3> QED BY <1>3, <2>1, <3>1, TurnedIs DEF InTurn
    <2>2. CASE ~Draining
      BY <1>3, <2>2 DEF InTurn
    <2> QED BY <2>1, <2>2
  <1>5. Plain(tq, Sqs) \in [Place -> Seq(Hcmd)]
    BY <1>2, PlainIs
  <1>6. \A a \in 1 .. 4 : SqPlace(a) # HCE_TO_SQ /\ SqPlace(a) \in Place
    BY PlaceFacts
  <1>7. HCE_TO_SQ \in Place
    BY PlaceFacts
  <1>8. /\ Line \in [Place -> Seq(Hcmd)] /\ Line[HCE_TO_SQ] = InTurn
        /\ \A p \in Place : p # HCE_TO_SQ => Line[p] = Plain(tq, Sqs)[p]
    BY <1>4, <1>5, <1>7 DEF Line
  <1>9. /\ \A s \in Status : s # HCE_TO_SQ => Line[s] = tq[s]
        /\ \A a \in 1 .. 4 : Line[SqPlace(a)] = Hcmds(Sqs[a])
    <2>1. /\ \A s \in Status : Plain(tq, Sqs)[s] = tq[s]
          /\ \A a \in 1 .. 4 : Plain(tq, Sqs)[SqPlace(a)] = Hcmds(Sqs[a])
      BY <1>2, PlainIs
    <2>2. Status \subseteq Place
      BY PlaceFacts
    <2> QED BY <1>6, <1>8, <2>1, <2>2, Zenon
  <1> QED BY <1>2, <1>4, <1>8, <1>9

\* The line holds allocated commands, and every command that is somewhere.
LEMMA LineHolds ==
  ASSUME IInv
  PROVE  /\ \A p \in Place : \A a \in 1 .. Len(Line[p]) : Line[p][a] \in hcmd_map
         /\ \A g \in Members(tq) \cup FlightHcmds :
              \E p \in Place : \E a \in 1 .. Len(Line[p]) : Line[p][a] = g
         /\ Filled(Line, hcmd)
  <1>1. TypeOK /\ OnePlace /\ StageInv
    BY DEF IInv, PlaceInv
  <1>2. \A x : x \in Members(tq) <=> \E s \in Status : x \in Range(tq[s])
    BY LineFacts, InMembers
  <1>3. \A x : x \in FlightSqs <=> \E a \in 1 .. 4 : x \in Range(Sqs[a])
    BY LineFacts, InMembers DEF FlightSqs
  <1>4. \A s \in Status : s \in Place /\ Line[s] \in Seq(Hcmd) /\ Range(Line[s]) = Range(tq[s])
    BY LineFacts, PlaceFacts
  <1>5. ASSUME NEW a \in 1 .. 4
        PROVE  /\ SqPlace(a) \in Place /\ Line[SqPlace(a)] = Hcmds(Sqs[a]) /\ Sqs[a] \in Seq(EMU_sq)
               /\ Len(Line[SqPlace(a)]) = Len(Sqs[a])
               /\ \A k \in 1 .. Len(Sqs[a]) : Line[SqPlace(a)][k] = Sqs[a][k].hcmd_index
    <2>1. Sqs[a] \in Seq(EMU_sq) /\ Line[SqPlace(a)] = Hcmds(Sqs[a]) /\ SqPlace(a) \in Place
      BY LineFacts, PlaceFacts
    <2> QED BY <2>1, HcmdsFollow
  <1>6. ASSUME NEW p \in Place, NEW a \in 1 .. Len(Line[p])
        PROVE  Line[p][a] \in hcmd_map
    <2>1. CASE p \in Status
      <3>1. Line[p][a] \in Range(tq[p])
        BY <1>4, <2>1, RangeIsIndexed
      <3> QED BY <1>1, <1>2, <2>1, <3>1 DEF OnePlace
    <2>2. CASE p \notin Status
      <3>1. PICK b \in 1 .. 4 : p = SqPlace(b)
        BY <2>2, PlaceFacts
      <3>2. a \in 1 .. Len(Sqs[b]) /\ Line[p][a] = Sqs[b][a].hcmd_index
        BY <1>5, <3>1
      <3>3. Sqs[b][a] \in Range(Sqs[b])
        BY <1>5, <3>2, RangeIsIndexed
      <3>4. Line[p][a] \in FlightHcmds
        BY <1>3, <3>2, <3>3 DEF FlightHcmds
      <3> QED BY <1>1, <3>4 DEF OnePlace
    <2> QED BY <2>1, <2>2
  <1>7. ASSUME NEW g \in Members(tq)
        PROVE  \E p \in Place : \E a \in 1 .. Len(Line[p]) : Line[p][a] = g
    <2>1. PICK s \in Status : g \in Range(Line[s]) /\ s \in Place
      BY <1>2, <1>4
    <2>2. \E a \in 1 .. Len(Line[s]) : Line[s][a] = g
      BY <1>4, <2>1, RangeIsIndexed
    <2> QED BY <2>1, <2>2
  <1>8. ASSUME NEW g \in FlightHcmds
        PROVE  \E p \in Place : \E a \in 1 .. Len(Line[p]) : Line[p][a] = g
    <2>1. PICK e \in FlightSqs : e.hcmd_index = g
      BY DEF FlightHcmds
    <2>2. PICK b \in 1 .. 4 : e \in Range(Sqs[b])
      BY <1>3
    <2>3. PICK k \in 1 .. Len(Sqs[b]) : Sqs[b][k] = e
      BY <1>5, <2>2, RangeIsIndexed
    <2>4. k \in 1 .. Len(Line[SqPlace(b)]) /\ Line[SqPlace(b)][k] = g /\ SqPlace(b) \in Place
      BY <1>5, <2>1, <2>3
    <2> QED BY <2>4
  <1>9. Filled(Line, hcmd)
    BY <1>1, <1>6, LineFacts DEF Filled, TypeOK, StageInv
  <1> QED BY <1>6, <1>7, <1>8, <1>9

\* Outside a drain of TO_SQ, and at its start and end, the line is the queues
\* as they stand.
LEMMA LineIsPlain ==
  ASSUME NEW q \in [Status -> Seq(Hcmd)], NEW Q \in [1 .. 4 -> Seq(EMU_sq)]
  PROVE  [Plain(q, Q) EXCEPT ![HCE_TO_SQ] = q[HCE_TO_SQ]] = Plain(q, Q)
  <1>1. HCE_TO_SQ \in Place /\ Plain(q, Q)[HCE_TO_SQ] = q[HCE_TO_SQ]
    BY PlainIs, PlaceFacts
  <1>2. Plain(q, Q) \in [Place -> Seq(Hcmd)]
    BY PlainIs
  <1> QED BY <1>1, <1>2

\* A step that leaves TO_SQ undrained, or drained as a whole.
LEMMA LineNow ==
  ASSUME IInv, Draining => cnt = Len(tq[HCE_TO_SQ])
  PROVE  Line = Plain(tq, Sqs)
  <1>1. InTurn = tq[HCE_TO_SQ]
    <2>1. tq[HCE_TO_SQ] \in Seq(Hcmd)
      BY LineFacts, PlaceFacts
    <2> QED BY <2>1, TurnedNot DEF InTurn
  <1> QED BY <1>1, LineFacts, LineIsPlain DEF Line

\* The same after a step.
LEMMA LineNext ==
  ASSUME TypeOK', ~Draining'
  PROVE  /\ Line' = Plain(tq', Sqs')
         /\ tq' \in [Status -> Seq(Hcmd)] /\ Sqs' \in [1 .. 4 -> Seq(EMU_sq)]
  <1>1. InTurn' = tq'[HCE_TO_SQ]
    BY DEF InTurn
  <1>2. tq' \in [Status -> Seq(Hcmd)] /\ Sqs' \in [1 .. 4 -> Seq(EMU_sq)]
    BY DEF TypeOK, Sqs
  <1>3. Line' = [Plain(tq', Sqs') EXCEPT ![HCE_TO_SQ] = InTurn']
    BY DEF Line, Plain
  <1> QED BY <1>1, <1>2, <1>3, LineIsPlain

\* FTL_sendhcmd of the head just removed: it is appended.
LEMMA AdvanceIs ==
  ASSUME NEW q, Family(Status, Hcmd, q), NEW s \in Status, NEW t \in Status, q[s] # << >>
  PROVE  /\ Sendhcmd(RemoveHead(q, s), Head(q[s]), t) = Enqueue(Dequeue(q, s), t, Head(q[s]))
         /\ Head(q[s]) \in Hcmd /\ Dequeue(q, s) \in [Status -> Seq(Hcmd)]
  <1> DEFINE h == Head(q[s])
             m == Dequeue(q, s)
  <1>1. Dequeued(Status, Hcmd, q, s, h, m)
    BY DequeueProps
  <1> HIDE DEF h, m
  <1>2. Sendhcmd(m, h, t) = Enqueue(m, t, h)
    BY <1>1, SendFits DEF Dequeued
  <1>3. h \in Hcmd /\ m \in [Status -> Seq(Hcmd)]
    BY <1>1 DEF Dequeued, Family
  <1> QED BY <1>2, <1>3 DEF h, m, RemoveHead

\* A handler passes a command on to its next stage.
LEMMA PassOrder ==
  ASSUME IInv, TypeOK', Ordered, NEW s \in Status, NEW t \in Status, s # HCE_TO_SQ, Polled(s),
         tq' = Sendhcmd(RemoveHead(tq, s), Head(tq[s]), t), UNCHANGED <<hcmd, pc, i>>, Sqs' = Sqs,
         Stage(hcmd[Head(tq[s])].op_code, t) = Stage(hcmd[Head(tq[s])].op_code, s) + 1
  PROVE  Ordered'
  <1>1. ~Draining /\ ~Draining' /\ tq[s] # << >>
    BY DEF Polled, Draining
  <1>2. Line = Plain(tq, Sqs) /\ Line' = Plain(tq', Sqs)
    BY <1>1, LineNow, LineNext
  <1>3. tq \in [Status -> Seq(Hcmd)] /\ Sqs \in [1 .. 4 -> Seq(EMU_sq)] /\ Line[s] = tq[s]
    BY LineFacts
  <1> DEFINE h == Head(tq[s])
             m == Dequeue(tq, s)
  <1>4. tq' = Enqueue(m, t, h) /\ h \in Hcmd /\ m \in [Status -> Seq(Hcmd)]
    BY <1>1, AdvanceIs, TqIsFamily DEF IInv, PlaceInv
  <1>5. Plain(m, Sqs) = Dequeue(Line, s)
    BY <1>2, <1>3, PlainQueue
  <1> HIDE DEF m
  <1>6. Plain(Enqueue(m, t, h), Sqs) = Enqueue(Plain(m, Sqs), t, h)
    BY <1>3, <1>4, PlainQueue
  <1>7. Line' = Enqueue(Dequeue(Line, s), t, Head(Line[s]))
    BY <1>2, <1>3, <1>4, <1>5, <1>6
  <1>8. InOrder(Enqueue(Dequeue(Line, s), t, Head(Line[s])), hcmd)
    <2>1. s \in Place /\ t \in Place /\ Line[s] # << >>
      BY <1>1, <1>3, PlaceFacts
    <2>2. Filled(Line, hcmd) /\ InOrder(Line, hcmd)
      BY LineHolds DEF Ordered
    <2> QED BY <1>3, <2>1, <2>2, OrderMove
  <1> QED BY <1>7, <1>8 DEF Ordered

\* An EMU_sq goes on to its next place while TO_SQ keeps its turn.
LEMMA HandOverOrder ==
  ASSUME IInv, Ordered, NEW a \in 1 .. 3, Sqs[a] # << >>,
         Sqs' = Enqueue(Dequeue(Sqs, a), a + 1, Head(Sqs[a])),
         UNCHANGED <<tq, hcmd>>, InTurn' = InTurn
  PROVE  Ordered'
  <1> DEFINE P == Plain(tq, Sqs)
             S == SqPlace(a)
             T == SqPlace(a + 1)
             h == Head(P[S])
  <1>1. a \in 1 .. 4 /\ a + 1 \in 1 .. 4
    OBVIOUS
  <1>2. /\ tq \in [Status -> Seq(Hcmd)] /\ Sqs \in [1 .. 4 -> Seq(EMU_sq)]
        /\ P \in [Place -> Seq(Hcmd)] /\ P[S] = Hcmds(Sqs[a]) /\ Line[S] = P[S] /\ Sqs[a] \in Seq(EMU_sq)
    BY <1>1, LineFacts, PlainIs
  <1>3. /\ HCE_TO_SQ \in Place /\ S \in Place /\ T \in Place
        /\ S # HCE_TO_SQ /\ T # HCE_TO_SQ /\ S # T
    BY <1>1, PlaceFacts DEF SqPlace, HCE_FINISH
  <1>4. Plain(tq, Sqs') = Enqueue(Dequeue(P, S), T, h)
    BY <1>1, <1>2, PlainHandOver
  <1>5. Line' = [Plain(tq, Sqs') EXCEPT ![HCE_TO_SQ] = InTurn]
    BY DEF Line, Plain
  <1>6. Line = [P EXCEPT ![HCE_TO_SQ] = InTurn]
    BY DEF Line
  <1> HIDE DEF P, S, T
  <1>7. [Enqueue(Dequeue(P, S), T, h) EXCEPT ![HCE_TO_SQ] = InTurn]
          = Enqueue(Dequeue([P EXCEPT ![HCE_TO_SQ] = InTurn], S), T, h)
    BY <1>2, <1>3 DEF Enqueue, Dequeue
  <1>8. Line' = Enqueue(Dequeue(Line, S), T, Head(Line[S]))
    BY <1>2, <1>4, <1>5, <1>6, <1>7
  <1>9. Line[S] # << >>
    BY <1>2, HcmdsFollow
  <1>10. Filled(Line, hcmd)
    BY LineHolds
  <1>11. hcmd[Head(Line[S])].op_code \in Ops
    <2>1. Line[S] \in Seq(Hcmd)
      BY <1>3, LineFacts
    <2>2. Head(Line[S]) = Line[S][1] /\ 1 \in 1 .. Len(Line[S])
      BY <1>9, <2>1
    <2> QED BY <1>3, <1>10, <2>2 DEF Filled
  <1>12. \A op \in Ops : Stage(op, T) = Stage(op, S) + 1
    BY <1>1 DEF Stage, S, T, SqPlace, Ops, HCE_READ, HCE_WRITE,
           HCE_CHECK_CACHE, HCE_TO_SQ, HCE_DATAMOVED, HCE_FROM_CQ, HCE_FINISH
  <1>13. InOrder(Enqueue(Dequeue(Line, S), T, Head(Line[S])), hcmd)
    BY <1>3, <1>9, <1>10, <1>11, <1>12, OrderMove DEF Ordered
  <1> QED BY <1>8, <1>13 DEF Ordered

\* Nothing moves; a command that finds no SQ entry only moves within the turn.
LEMMA StayOrder ==
  ASSUME IInv, Ordered, UNCHANGED hcmd, Sqs' = Sqs, InTurn' = InTurn,
         \A s \in Status : s # HCE_TO_SQ => tq'[s] = tq[s]
  PROVE  Ordered'
  <1>1. Plain(tq', Sqs) = [Plain(tq, Sqs) EXCEPT ![HCE_TO_SQ] = tq'[HCE_TO_SQ]]
    BY PlaceFacts DEF Plain
  <1>2. Line' = [Plain(tq', Sqs) EXCEPT ![HCE_TO_SQ] = InTurn]
    BY DEF Line, Plain
  <1>3. Line' = Line
    BY <1>1, <1>2, PlaceFacts DEF Line, Plain
  <1> QED BY <1>3 DEF Ordered

\* A command that finds no SQ entry keeps its place in the turn.
LEMMA RetryOrder ==
  ASSUME IInv, Ordered, HandleTosqRetry
  PROVE  Ordered'
  <1> DEFINE q == tq[HCE_TO_SQ]
  <1>1. /\ Draining /\ Draining' /\ cnt > 0 /\ cnt' = cnt - 1 /\ q # << >>
        /\ tq' = Sendhcmd(RemoveHead(tq, HCE_TO_SQ), Head(q), HCE_TO_SQ)
        /\ UNCHANGED <<hcmd, pc, i>> /\ Sqs' = Sqs
    BY DEF HandleTosqRetry, Polled, Draining, cmdVars, linkVars, beVars, Sqs
  <1>2. q \in Seq(Hcmd) /\ cnt \in 1 .. Len(q) /\ tq \in [Status -> Seq(Hcmd)]
    <2>1. q \in Seq(Hcmd) /\ tq \in [Status -> Seq(Hcmd)]
      BY LineFacts, PlaceFacts
    <2>2. cnt \in Nat /\ cnt <= Len(q)
      BY <1>1 DEF IInv, ControlInv, LoopInv, SampleCovered, Draining, TypeOK
    <2> QED BY <1>1, <2>1, <2>2
  <1>3. tq' = Enqueue(Dequeue(tq, HCE_TO_SQ), HCE_TO_SQ, Head(q))
    BY <1>1, AdvanceIs, TqIsFamily, PlaceFacts DEF IInv, PlaceInv
  <1>4. /\ tq'[HCE_TO_SQ] = Append(Tail(q), Head(q))
        /\ \A s \in Status : s # HCE_TO_SQ => tq'[s] = tq[s]
    BY <1>2, <1>3, PlaceFacts DEF Enqueue, Dequeue
  <1>5. InTurn' = Turned(Append(Tail(q), Head(q)), cnt - 1) /\ InTurn = Turned(q, cnt)
    BY <1>1, <1>4 DEF InTurn, Turned
  <1>6. InTurn' = InTurn
    BY <1>2, <1>5, TurnedAgain
  <1> QED BY <1>1, <1>4, <1>6, StayOrder

\* A command gets an SQ entry: none was queued again in this drain, so it is
\* the first in turn.
LEMMA TosqOrder ==
  ASSUME IInv, TypeOK', RetryInv, Ordered, HandleTosq
  PROVE  Ordered'
  <1> DEFINE h == Head(tq[HCE_TO_SQ])
             m == Dequeue(tq, HCE_TO_SQ)
  <1>1. /\ Draining /\ ~Draining' /\ tq[HCE_TO_SQ] # << >> /\ tq' = m /\ pc = "task"
        /\ UNCHANGED <<hcmd, register_list, complete_list, r_sq>>
    BY DEF HandleTosq, Polled, RemoveHead, Draining, cmdVars, linkVars, beVars
  <1>2. PICK x \in SqIndex :
          x \notin sq_bitmap /\ ftl_sq' = <<[sq_index |-> x, hcmd_index |-> h, op |-> hcmd[h].op_code]>>
    BY DEF HandleTosq, FCL_get_free_SQ_entry, FCL_set_SQ_entry, IsFirstFree
  <1> DEFINE e == [sq_index |-> x, hcmd_index |-> h, op |-> hcmd[h].op_code]
  <1>3. cnt = Len(tq[HCE_TO_SQ])
    <2>1. Len(tq[HCE_TO_SQ]) \in Nat /\ cnt \in Nat /\ cnt <= Len(tq[HCE_TO_SQ])
      BY <1>1, LineFacts, PlaceFacts, SMTT(30) DEF IInv, ControlInv, LoopInv, SampleCovered, Draining, TypeOK
    <2> QED BY <1>1, <1>2, <2>1 DEF RetryInv
  <1>4. Line = Plain(tq, Sqs) /\ Line' = Plain(tq', Sqs')
    BY <1>1, <1>3, LineNow, LineNext
  <1>5. /\ tq \in [Status -> Seq(Hcmd)] /\ Sqs \in [1 .. 4 -> Seq(EMU_sq)]
        /\ tq[HCE_TO_SQ] = Line[HCE_TO_SQ] /\ HCE_TO_SQ \in Status /\ HCE_TO_SQ \in Place
        /\ SqPlace(1) \in Place /\ Filled(Line, hcmd) /\ 1 \in 1 .. 4
    <2>1. 1 \in 1 .. 4
      OBVIOUS
    <2>2. HCE_TO_SQ \in Status /\ HCE_TO_SQ \in Place /\ SqPlace(1) \in Place
      BY <2>1, PlaceFacts
    <2>3. tq \in [Status -> Seq(Hcmd)] /\ Sqs \in [1 .. 4 -> Seq(EMU_sq)] /\ Filled(Line, hcmd)
      BY LineFacts, LineHolds
    <2>4. tq[HCE_TO_SQ] = Line[HCE_TO_SQ]
      BY <1>4, <2>2, <2>3, PlainIs
    <2> QED BY <2>1, <2>2, <2>3, <2>4
  <1>6. h \in Hcmd /\ m \in [Status -> Seq(Hcmd)]
    BY <1>1, <1>5, AdvanceIs, TqIsFamily DEF IInv, PlaceInv
  <1>7. hcmd[h].op_code \in Ops
    <2>1. tq[HCE_TO_SQ] \in Seq(Hcmd)
      BY <1>5
    <2>2. h = Line[HCE_TO_SQ][1] /\ 1 \in 1 .. Len(Line[HCE_TO_SQ])
      BY <1>1, <1>5, <2>1
    <2> QED BY <1>5, <2>2 DEF Filled
  <1>8. e \in EMU_sq /\ e.hcmd_index = h
    BY <1>6, <1>7 DEF EMU_sq
  <1>9. Sqs' = Enqueue(Sqs, 1, e)
    <2>1. ftl_sq = << >>
      BY <1>1, EmptySeq DEF IInv, TypeOK
    <2>2. Append(<< >>, e) = <<e>>
      BY <1>8
    <2> QED BY <1>1, <1>2, <2>1, <2>2, SMTT(30) DEF Sqs, Enqueue
  <1>10. Plain(m, Sqs) = Dequeue(Line, HCE_TO_SQ)
    BY <1>4, <1>5, PlainQueue
  <1> HIDE DEF m, e, h
  <1>11. Plain(m, Enqueue(Sqs, 1, e)) = Enqueue(Plain(m, Sqs), SqPlace(1), e.hcmd_index)
    BY <1>5, <1>6, <1>8, PlainSqs
  <1>12. Line' = Enqueue(Dequeue(Line, HCE_TO_SQ), SqPlace(1), Head(Line[HCE_TO_SQ]))
    BY <1>1, <1>4, <1>5, <1>8, <1>9, <1>10, <1>11 DEF h
  <1>13. \A op \in Ops : Stage(op, SqPlace(1)) = Stage(op, HCE_TO_SQ) + 1
    BY DEF Stage, SqPlace, Ops, HCE_READ, HCE_WRITE,
           HCE_CHECK_CACHE, HCE_TO_SQ, HCE_DATAMOVED, HCE_FROM_CQ, HCE_FINISH
  <1>14. InOrder(Enqueue(Dequeue(Line, HCE_TO_SQ), SqPlace(1), Head(Line[HCE_TO_SQ])), hcmd)
    BY <1>1, <1>5, <1>7, <1>13, OrderMove DEF Ordered, h
  <1> QED BY <1>1, <1>12, <1>14 DEF Ordered

\* CQ polling passes a one-page command on and forgets any other.
LEMMA CqOrder ==
  ASSUME IInv, TypeOK', Ordered, CqEntry
  PROVE  Ordered'
  <1> DEFINE e == Head(complete_list)
             h == e.hcmd_index
             C == SqPlace(4)
  <1>1. /\ complete_list # << >> /\ ~Draining /\ ~Draining'
        /\ hcmd' = [hcmd EXCEPT ![h].cpl_cnt = hcmd[h].cpl_cnt + 1]
        /\ tq' \in {tq, Sendhcmd(tq, h, HCE_FROM_CQ)}
        /\ Sqs' = Dequeue(Sqs, 4)
    BY DEF CqEntry, Draining, ftlVars, beVars, Sqs, Dequeue
  <1>2. Line = Plain(tq, Sqs) /\ Line' = Plain(tq', Dequeue(Sqs, 4))
    BY <1>1, LineNow, LineNext
  <1>3. /\ tq \in [Status -> Seq(Hcmd)] /\ Sqs \in [1 .. 4 -> Seq(EMU_sq)] /\ Sqs[4] = complete_list
        /\ Line[C] = Hcmds(Sqs[4]) /\ C \in Place /\ Filled(Line, hcmd) /\ 4 \in 1 .. 4
    <2>1. 4 \in 1 .. 4 /\ Sqs[4] = complete_list
      BY DEF Sqs
    <2>2. C \in Place
      BY <2>1, PlaceFacts
    <2>3. tq \in [Status -> Seq(Hcmd)] /\ Sqs \in [1 .. 4 -> Seq(EMU_sq)] /\ Line[C] = Hcmds(Sqs[4])
      BY <2>1, LineFacts
    <2>4. Filled(Line, hcmd)
      BY LineHolds
    <2> QED BY <2>1, <2>2, <2>3, <2>4
  <1>4. /\ Line[C] # << >> /\ Head(Line[C]) = h /\ Line[C] \in Seq(Hcmd)
    BY <1>1, <1>3, HcmdsFollow, LineFacts
  <1>5. h \in Hcmd /\ h \in hcmd_map /\ h \in FlightHcmds /\ hcmd[h].op_code \in Ops
    <2>1. h = Line[C][1] /\ 1 \in 1 .. Len(Line[C])
      BY <1>4
    <2>2. h \in hcmd_map
      BY <1>3, <2>1, LineHolds
    <2>3. e \in FlightSqs
      <3>1. e \in Range(Sqs[4])
        <4>1. Family(1 .. 4, EMU_sq, Sqs)
          BY SqsIsFamily DEF IInv, PlaceInv
        <4>2. Dequeued(1 .. 4, EMU_sq, Sqs, 4, Head(Sqs[4]), Dequeue(Sqs, 4))
          BY <1>1, <1>3, <4>1, DequeueProps
        <4> QED BY <1>3, <4>2 DEF Dequeued
      <3>2. \A x : x \in FlightSqs <=> \E a \in 1 .. 4 : x \in Range(Sqs[a])
        BY <1>3, InMembers DEF FlightSqs
      <3> QED BY <1>3, <3>1, <3>2
    <2> QED BY <1>3, <2>1, <2>2, <2>3 DEF Filled, FlightHcmds, IInv, TypeOK
  <1>6. Plain(tq, Dequeue(Sqs, 4)) = Dequeue(Line, C)
    BY <1>1, <1>2, <1>3, PlainSqs
  <1>7. \A g \in Hcmd : hcmd'[g].op_code = hcmd[g].op_code /\ hcmd'[g].emu_id = hcmd[g].emu_id
    <2>1. hcmd[h] \in HcmdEntry /\ DOMAIN hcmd = Hcmd
      BY <1>5 DEF IInv, TypeOK
    <2> QED BY <1>1, <1>5, <2>1 DEF HcmdEntry
  <1> HIDE DEF h, e, C
  <1>8. \A q : q = Dequeue(Line, C) => InOrder(q, hcmd)
    BY <1>3, <1>4, OrderDrop DEF Ordered
  <1>9. Line' \in [Place -> Seq(Hcmd)] /\ InOrder(Line', hcmd)
    <2>1. Line' \in [Place -> Seq(Hcmd)]
      BY <1>1, LineNext, PlainIs
    <2>2. CASE tq' = tq
      BY <1>2, <1>6, <1>8, <2>1, <2>2
    <2>3. CASE tq' # tq
      <3>1. HCE_FROM_CQ \in Status /\ HCE_FROM_CQ \in Place
        BY PlaceFacts DEF Status, HCE_CHECK_CACHE, HCE_FROM_CQ, HCE_FINISH
      <3>2. tq' = Enqueue(tq, HCE_FROM_CQ, h)
        BY <1>1, <2>3 DEF Sendhcmd
      <3>3. Dequeue(Sqs, 4) \in [1 .. 4 -> Seq(EMU_sq)]
        BY <1>1, LineNext
      <3>4. Line' = Enqueue(Plain(tq, Dequeue(Sqs, 4)), HCE_FROM_CQ, h)
        BY <1>2, <1>3, <1>5, <3>1, <3>2, <3>3, PlainQueue
      <3>5. \A op \in Ops : Stage(op, HCE_FROM_CQ) = Stage(op, C) + 1
        BY DEF Stage, C, SqPlace, Ops, HCE_READ, HCE_WRITE,
               HCE_CHECK_CACHE, HCE_TO_SQ, HCE_DATAMOVED, HCE_FROM_CQ, HCE_FINISH
      <3>6. InOrder(Enqueue(Dequeue(Line, C), HCE_FROM_CQ, Head(Line[C])), hcmd)
        BY <1>3, <1>4, <1>5, <3>1, <3>5, OrderMove DEF Ordered
      <3> QED BY <1>4, <1>6, <2>1, <3>4, <3>6
    <2> QED BY <2>2, <2>3
  <1>10. \A p \in Place : \A a \in 1 .. Len(Line'[p]) : Line'[p][a] \in Hcmd
    <2>1. \A p \in Place : Line'[p] \in Seq(Hcmd)
      BY <1>9
    <2> QED BY <2>1
  <1>11. InOrder(Line', hcmd')
    <2> DEFINE L == Line'
               k == hcmd'
    <2>1. \A p \in Place : \A a \in 1 .. Len(L[p]) :
            k[L[p][a]].op_code = hcmd[L[p][a]].op_code /\ k[L[p][a]].emu_id = hcmd[L[p][a]].emu_id
      BY <1>7, <1>10
    <2>2. InOrder(L, hcmd)
      BY <1>9
    <2> HIDE DEF L, k
    <2>3. InOrder(L, k)
      BY <2>1, <2>2, OrderSame
    <2> QED BY <2>3 DEF L, k
  <1> QED BY <1>11 DEF Ordered

\* The line holds allocated commands only.
LineIn == \A p \in Place : \A a \in 1 .. Len(Line[p]) : Line[p][a] \in hcmd_map

\* So it does after a step.
LEMMA LineInNext == IInv' => LineIn'
  <1>1. IInv => LineIn
    BY LineHolds DEF LineIn
  <1> QED BY <1>1, PTL

\* A finished command leaves, and its entry with it.
LEMMA FinishOrder ==
  ASSUME IInv, TypeOK', Ordered, HandleFinish
  PROVE  Ordered'
  <1> DEFINE F == HCE_FINISH
             h == Head(tq[F])
  <1>1. /\ tq[F] # << >> /\ tq' = Dequeue(tq, F) /\ ~Draining /\ ~Draining' /\ Sqs' = Sqs
        /\ hcmd' = [hcmd EXCEPT ![h] = ZeroEntry]
    BY DEF HandleFinish, Polled, RemoveHead, Draining, linkVars, beVars, Sqs, HCE_TO_SQ, HCE_FINISH
  <1>2. Line = Plain(tq, Sqs) /\ Line' = Plain(Dequeue(tq, F), Sqs)
    BY <1>1, LineNow, LineNext
  <1>3. /\ tq \in [Status -> Seq(Hcmd)] /\ Sqs \in [1 .. 4 -> Seq(EMU_sq)] /\ F \in Status /\ F \in Place
        /\ Line[F] = tq[F] /\ Filled(Line, hcmd)
    <2>1. F \in Status /\ F # HCE_TO_SQ
      BY DEF Status, HCE_CHECK_CACHE, HCE_TO_SQ, HCE_FINISH
    <2> QED BY <2>1, LineFacts, LineHolds, PlaceFacts
  <1>4. Line' = Dequeue(Line, F)
    BY <1>2, <1>3, PlainQueue
  <1>5. InOrder(Dequeue(Line, F), hcmd)
    BY <1>1, <1>3, OrderDrop DEF Ordered
  <1> DEFINE L == Line'
             k == hcmd'
  <1>6. ASSUME NEW p \in Place, NEW a \in 1 .. Len(L[p]) PROVE L[p][a] \in Hcmd /\ L[p][a] # h
    <2>1. IInv'
      BY InvStep DEF Next, TaskStep
    <2>2. hcmd_map' = hcmd_map \ {h} /\ hcmd_map \subseteq Hcmd
      BY DEF HandleFinish, IInv, TypeOK
    <2>3. L[p][a] \in hcmd_map'
      BY <2>1, LineInNext DEF LineIn
    <2> QED BY <2>2, <2>3
  <1>7. \A g \in Hcmd : g # h => k[g] = hcmd[g]
    BY <1>1 DEF IInv, TypeOK
  <1>8. InOrder(L, hcmd)
    BY <1>4, <1>5
  <1> HIDE DEF L, k
  <1>9. InOrder(L, k)
    BY <1>6, <1>7, <1>8, OrderSame
  <1> QED BY <1>9 DEF Ordered, L, k

\* A command is accepted: it is younger than all others.
LEMMA AcceptOrder ==
  ASSUME IInv, TypeOK', IdInv, Ordered, NEW op \in Ops, NEW size \in Sizes, PollAccept(op, size)
  PROVE  Ordered'
  <1> DEFINE C == HCE_CHECK_CACHE
             k == hcmd'
  <1>1. PICK h \in Hcmd :
          /\ h \notin hcmd_map
          /\ hcmd' = [hcmd EXCEPT ![h] = [op_code |-> op, req_num |-> ReqNum(size),
                                          cpl_cnt |-> 0, emu_id |-> emu_c + 1]]
          /\ tq' = Sendhcmd(tq, h, C)
    BY DEF PollAccept, IsFirstFree
  <1>2. /\ k[h].op_code = op /\ k[h].emu_id = emu_c + 1
        /\ \A g \in Hcmd : g # h => k[g] = hcmd[g]
    BY <1>1 DEF IInv, TypeOK
  <1>3. ~Draining /\ ~Draining' /\ Sqs' = Sqs
    <2>1. pc = "nvme" /\ (pc' = "nvme" \/ i' = HCE_CHECK_CACHE)
      BY DEF PollAccept, PollNext
    <2> QED BY <2>1 DEF PollAccept, Draining, Sqs, linkVars, beVars, HCE_CHECK_CACHE, HCE_TO_SQ
  <1>4. Line = Plain(tq, Sqs) /\ Line' = Plain(tq', Sqs)
    BY <1>3, LineNow, LineNext
  <1>5. C \in Status /\ C \in Place
    BY PlaceFacts DEF Status, HCE_CHECK_CACHE, HCE_FINISH
  <1>6. tq' = Enqueue(tq, C, h)
    <2>1. Family(Status, Hcmd, tq) /\ OnePlace
      BY TqIsFamily DEF IInv, PlaceInv
    <2>2. \A x : x \in Members(tq) <=> \E t \in Status : x \in Range(tq[t])
      BY <2>1, InMembers DEF Family
    <2>3. \A t \in Status : h \notin Range(tq[t])
      BY <1>1, <2>1, <2>2 DEF OnePlace
    <2> QED BY <1>1, <1>5, <2>1, <2>3, SendFits
  <1>7. Line' = Enqueue(Line, C, h)
    BY <1>4, <1>5, <1>6, LineFacts, PlainQueue
  <1>8. k \in [Hcmd -> HcmdEntry] /\ emu_c \in Nat
    BY DEF TypeOK, IInv
  <1> HIDE DEF k, C
  <1>9. ASSUME NEW p \in Place, NEW a \in 1 .. Len(Line[p])
        PROVE  /\ Line[p][a] \in Hcmd /\ k[Line[p][a]] = hcmd[Line[p][a]]
               /\ hcmd[Line[p][a]].emu_id <= emu_c /\ hcmd[Line[p][a]] \in HcmdEntry
    <2>1. Line[p][a] \in hcmd_map
      BY LineHolds
    <2>2. Line[p][a] \in Hcmd /\ Line[p][a] # h
      BY <1>1, <2>1 DEF IInv, TypeOK
    <2> QED BY <1>2, <2>1, <2>2 DEF IdInv, IInv, TypeOK
  <1>10. InOrder(Line, k)
    <2>1. \A p \in Place : \A a \in 1 .. Len(Line[p]) :
            k[Line[p][a]].op_code = hcmd[Line[p][a]].op_code /\ k[Line[p][a]].emu_id = hcmd[Line[p][a]].emu_id
      BY <1>9, Zenon
    <2>2. InOrder(Line, hcmd)
      BY DEF Ordered
    <2>3. ASSUME NEW L, L = Line PROVE InOrder(L, k)
      <3>1. InOrder(L, hcmd)
        BY <2>2, <2>3
      <3>2. \A p \in Place : \A a \in 1 .. Len(L[p]) :
              k[L[p][a]].op_code = hcmd[L[p][a]].op_code /\ k[L[p][a]].emu_id = hcmd[L[p][a]].emu_id
        BY <2>1, <2>3, Zenon
      <3> QED BY <3>1, <3>2, OrderSame, SMTT(30)
    <2> QED BY <2>3, Zenon
  <1>11. Filled(Line, k)
    BY <1>8, <1>9, LineHolds DEF Filled
  <1>12. \A p \in Place : \A a \in 1 .. Len(Line[p]) : k[Line[p][a]].emu_id < k[h].emu_id
    <2> SUFFICES ASSUME NEW p \in Place, NEW a \in 1 .. Len(Line[p])
                 PROVE  k[Line[p][a]].emu_id < k[h].emu_id
      OBVIOUS
    <2>1. k[Line[p][a]] = hcmd[Line[p][a]] /\ hcmd[Line[p][a]].emu_id <= emu_c /\ hcmd[Line[p][a]] \in HcmdEntry
      BY <1>9
    <2>2. hcmd[Line[p][a]].emu_id \in Nat
      BY <2>1 DEF HcmdEntry
    <2> QED BY <1>2, <1>8, <2>1, <2>2, SMTT(30)
  <1>13. InOrder(Enqueue(Line, HCE_CHECK_CACHE, h), k)
    BY <1>2, <1>10, <1>11, <1>12, OrderAccept
  <1> QED BY <1>7, <1>13 DEF Ordered, k, C

\* Each handler passes a command on to the next stage of its kind.
LEMMA HandlersOrder ==
  ASSUME IInv, TypeOK', Ordered, HandleCheckcache \/ HandleDatamove \/ HandleFromcq
  PROVE  Ordered'
  <1>c. /\ HCE_CHECK_CACHE \in Status /\ HCE_TO_SQ \in Status /\ HCE_DATAMOVED \in Status
        /\ HCE_FROM_CQ \in Status /\ HCE_FINISH \in Status
        /\ HCE_CHECK_CACHE # HCE_TO_SQ /\ HCE_DATAMOVED # HCE_TO_SQ /\ HCE_FROM_CQ # HCE_TO_SQ
    BY DEF Status, HCE_CHECK_CACHE, HCE_TO_SQ, HCE_DATAMOVED, HCE_FROM_CQ, HCE_FINISH
  <1>k. \A s \in Status : tq[s] # << >> => hcmd[Head(tq[s])].op_code \in Ops
    <2> SUFFICES ASSUME NEW s \in Status, tq[s] # << >> PROVE hcmd[Head(tq[s])].op_code \in Ops
      OBVIOUS
    <2>1. Family(Status, Hcmd, tq)
      BY TqIsFamily DEF IInv, PlaceInv
    <2>2. Head(tq[s]) \in Members(tq)
      BY <2>1, DequeueProps DEF Dequeued
    <2> QED BY <2>2 DEF IInv, PlaceInv, OnePlace, StageInv
  <1>s. /\ Stage(HCE_READ, HCE_TO_SQ) = Stage(HCE_READ, HCE_CHECK_CACHE) + 1
        /\ Stage(HCE_WRITE, HCE_DATAMOVED) = Stage(HCE_WRITE, HCE_CHECK_CACHE) + 1
        /\ Stage(HCE_READ, HCE_FINISH) = Stage(HCE_READ, HCE_DATAMOVED) + 1
        /\ Stage(HCE_WRITE, HCE_TO_SQ) = Stage(HCE_WRITE, HCE_DATAMOVED) + 1
        /\ Stage(HCE_READ, HCE_DATAMOVED) = Stage(HCE_READ, HCE_FROM_CQ) + 1
        /\ Stage(HCE_WRITE, HCE_FINISH) = Stage(HCE_WRITE, HCE_FROM_CQ) + 1
    BY DEF Stage, HCE_READ, HCE_WRITE,
           HCE_CHECK_CACHE, HCE_TO_SQ, HCE_DATAMOVED, HCE_FROM_CQ, HCE_FINISH
  <1>o. HCE_READ # HCE_WRITE /\ Ops = {HCE_READ, HCE_WRITE}
    BY DEF HCE_READ, HCE_WRITE, Ops
  <1>1. ASSUME NEW s \in Status, NEW t \in Status, s # HCE_TO_SQ, Polled(s),
               tq' = Sendhcmd(RemoveHead(tq, s), Head(tq[s]), t),
               UNCHANGED <<cmdVars, pc, i, ftl_sq, linkVars, beVars>>,
               Stage(hcmd[Head(tq[s])].op_code, t) = Stage(hcmd[Head(tq[s])].op_code, s) + 1
        PROVE  Ordered'
    <2>1. UNCHANGED <<hcmd, pc, i>> /\ Sqs' = Sqs
      BY <1>1 DEF cmdVars, linkVars, beVars, Sqs
    <2> QED BY <1>1, <2>1, PassOrder
  <1>2. CASE HandleCheckcache
    <2>1. hcmd[Head(tq[HCE_CHECK_CACHE])].op_code \in Ops
      BY <1>2, <1>c, <1>k DEF HandleCheckcache, Polled
    <2> QED BY <1>1, <1>2, <1>c, <1>s, <1>o, <2>1 DEF HandleCheckcache
  <1>3. CASE HandleDatamove
    <2>1. hcmd[Head(tq[HCE_DATAMOVED])].op_code \in Ops
      BY <1>3, <1>c, <1>k DEF HandleDatamove, Polled
    <2> QED BY <1>1, <1>3, <1>c, <1>s, <1>o, <2>1 DEF HandleDatamove
  <1>4. CASE HandleFromcq
    <2>1. hcmd[Head(tq[HCE_FROM_CQ])].op_code \in Ops
      BY <1>4, <1>c, <1>k DEF HandleFromcq, Polled
    <2> QED BY <1>1, <1>4, <1>c, <1>s, <1>o, <2>1 DEF HandleFromcq
  <1> QED BY <1>2, <1>3, <1>4

\* BE_send_sq and be() hand the oldest EMU_sq of a place over to the next.
LEMMA LinksOrder ==
  ASSUME IInv, RetryInv, Ordered, BE_send_sq \/ BeTake \/ BeDone
  PROVE  Ordered'
  <1>s. Sqs[1] = ftl_sq /\ Sqs[2] = register_list /\ Sqs[3] = r_sq /\ Sqs[4] = complete_list
    BY DEF Sqs
  <1>1. CASE BE_send_sq
    <2>1. ftl_sq # << >> /\ Tail(ftl_sq) = << >>
      BY <1>1, OneElement DEF BE_send_sq, IInv, TypeOK
    <2>2. Sqs' = Enqueue(Dequeue(Sqs, 1), 2, Head(Sqs[1]))
      <3>1. Sqs' = << << >>, Append(register_list, Head(ftl_sq)), r_sq, complete_list >>
        BY <1>1 DEF BE_send_sq, Sqs
      <3>2. Enqueue(Dequeue(Sqs, 1), 2, Head(ftl_sq))
              = <<Tail(ftl_sq), Append(register_list, Head(ftl_sq)), r_sq, complete_list>>
        BY DEF Sqs, Enqueue, Dequeue
      <3> QED BY <1>s, <2>1, <3>1, <3>2, Zenon
    <2>3. InTurn' = InTurn
      <3>1. /\ tq' = tq /\ ~Draining /\ pc = "send" /\ cnt' = cnt - 1
            /\ tq[HCE_TO_SQ] \in Seq(Hcmd)
        BY <1>1, LineFacts, PlaceFacts DEF BE_send_sq, Draining
      <3>2. cnt' = Len(tq[HCE_TO_SQ])
        BY <3>1 DEF RetryInv
      <3>3. InTurn' = tq[HCE_TO_SQ]
        BY <3>1, <3>2, TurnedNot DEF InTurn, Turned
      <3> QED BY <3>1, <3>3 DEF InTurn
    <2>4. UNCHANGED <<tq, hcmd>>
      BY <1>1 DEF BE_send_sq, cmdVars
    <2>5. 1 \in 1 .. 3 /\ 1 + 1 = 2 /\ Sqs[1] # << >>
      BY <1>s, <2>1
    <2> QED BY <2>2, <2>3, <2>4, <2>5, HandOverOrder
  <1>2. CASE BeTake
    <2>1. Sqs' = Enqueue(Dequeue(Sqs, 2), 3, Head(Sqs[2])) /\ register_list # << >>
      <3>1. r_sq = << >>
        BY <1>2, EmptySeq DEF BeTake, IInv, TypeOK
      <3> QED BY <1>2, <3>1 DEF BeTake, ftlVars, Sqs, Enqueue, Dequeue
    <2>2. UNCHANGED <<tq, hcmd>> /\ InTurn' = InTurn
      BY <1>2 DEF BeTake, cmdVars, ftlVars, InTurn, Draining, Turned
    <2>3. 2 \in 1 .. 3 /\ 2 + 1 = 3 /\ Sqs[2] # << >>
      BY <1>s, <2>1
    <2> QED BY <2>1, <2>2, <2>3, HandOverOrder
  <1>3. CASE BeDone
    <2>1. r_sq # << >> /\ Tail(r_sq) = << >>
      BY <1>3, OneElement DEF BeDone, IInv, TypeOK
    <2>2. Sqs' = Enqueue(Dequeue(Sqs, 3), 4, Head(Sqs[3]))
      <3>1. Sqs' = <<ftl_sq, register_list, << >>, Append(complete_list, Head(r_sq))>>
        BY <1>3 DEF BeDone, ftlVars, Sqs
      <3>2. Enqueue(Dequeue(Sqs, 3), 4, Head(r_sq))
              = <<ftl_sq, register_list, Tail(r_sq), Append(complete_list, Head(r_sq))>>
        BY DEF Sqs, Enqueue, Dequeue
      <3> QED BY <1>s, <2>1, <3>1, <3>2, Zenon
    <2>3. UNCHANGED <<tq, hcmd>> /\ InTurn' = InTurn
      BY <1>3 DEF BeDone, cmdVars, ftlVars, InTurn, Draining, Turned
    <2>4. 3 \in 1 .. 3 /\ 3 + 1 = 4 /\ Sqs[3] # << >>
      BY <1>s, <2>1
    <2> QED BY <2>2, <2>3, <2>4, HandOverOrder
  <1> QED BY <1>1, <1>2, <1>3

\* The steps that move no command do not change the turn either: a drain of
\* TO_SQ begins with all of the queue to be handled and ends with none.
LEMMA QuietOrder ==
  ASSUME IInv, Ordered,
         \/ PollNone \/ PollNoEntry \/ NextQueue \/ SendLock \/ CqLock \/ CqUnlock
         \/ BeLock \/ BeWait \/ BeSpuriousWake \/ BeLockDone \/ UNCHANGED vars
  PROVE  Ordered'
  <1>1. UNCHANGED <<hcmd, tq, ftl_sq, register_list, r_sq, complete_list>>
    BY DEF PollNone, PollNoEntry, NextQueue, SendLock, CqLock, CqUnlock, BeLock, BeWait,
           BeSpuriousWake, BeLockDone, vars, cmdVars, ftlVars, linkVars, beVars
  <1>2. tq[HCE_TO_SQ] \in Seq(Hcmd)
    BY LineFacts, PlaceFacts
  <1>3. InTurn' = InTurn
    <2>1. CASE NextQueue
      <3>1. InTurn = tq[HCE_TO_SQ]
        BY <1>2, <2>1, TurnedNot DEF InTurn, NextQueue
      <3>2. Draining' => cnt' = Len(tq[HCE_TO_SQ])
        BY <2>1 DEF NextQueue, Draining, HCE_TO_SQ
      <3>3. InTurn' = tq[HCE_TO_SQ]
        BY <1>1, <1>2, <3>2, TurnedNot DEF InTurn, Turned
      <3> QED BY <3>1, <3>3
    <2>2. CASE PollNone \/ PollNoEntry
      <3>1. pc = "nvme" /\ (pc' = "nvme" \/ i' = HCE_CHECK_CACHE)
        BY <2>2 DEF PollNone, PollNoEntry, PollNext
      <3> QED BY <1>1, <3>1 DEF InTurn, Draining, HCE_CHECK_CACHE, HCE_TO_SQ
    <2>3. CASE SendLock \/ CqLock \/ CqUnlock
      BY <1>1, <2>3 DEF SendLock, CqLock, CqUnlock, InTurn, Draining
    <2>4. CASE BeLock \/ BeWait \/ BeSpuriousWake \/ BeLockDone \/ UNCHANGED vars
      BY <1>1, <2>4 DEF BeLock, BeWait, BeSpuriousWake, BeLockDone, vars, ftlVars, InTurn, Draining, Turned
    <2> QED BY <2>1, <2>2, <2>3, <2>4
  <1>4. Sqs' = Sqs
    BY <1>1 DEF Sqs
  <1> QED BY <1>1, <1>3, <1>4, StayOrder

\* Every step keeps the order.
LEMMA OrderStep ==
  ASSUME IInv, OrderInv, [Next]_vars
  PROVE  Ordered'
  <1>1. TypeOK' /\ RetryInv /\ IdInv /\ Ordered
    BY TypeStep DEF OrderInv, Ordered
  <1>2. ASSUME NEW op \in Ops, NEW size \in Sizes, PollAccept(op, size) PROVE Ordered'
    BY <1>1, <1>2, AcceptOrder
  <1> QED BY <1>1, <1>2, HandlersOrder, RetryOrder, TosqOrder, CqOrder, FinishOrder, LinksOrder, QuietOrder
          DEF Next, PollStep, TaskStep, CqStep, BeStep

\* Identifiers are handed out in increasing order.
LEMMA IdStep ==
  ASSUME IInv, IdInv, [Next]_vars
  PROVE  IdInv'
  <1>0. emu_c \in Nat /\ hcmd \in [Hcmd -> HcmdEntry] /\ hcmd_map \subseteq Hcmd
    BY DEF IInv, TypeOK
  <1>1. ASSUME NEW op \in Ops, NEW size \in Sizes, PollAccept(op, size) PROVE IdInv'
    <2>1. PICK h \in Hcmd :
            /\ hcmd_map' = hcmd_map \cup {h}
            /\ hcmd' = [hcmd EXCEPT ![h] = [op_code |-> op, req_num |-> ReqNum(size),
                                            cpl_cnt |-> 0, emu_id |-> emu_c + 1]]
      BY <1>1 DEF PollAccept
    <2>2. emu_c' = emu_c + 1
      BY <1>1 DEF PollAccept
    <2>3. ASSUME NEW g \in hcmd_map' PROVE hcmd'[g].emu_id <= emu_c'
      <3>1. CASE g = h
        BY <1>0, <2>1, <2>2, <3>1
      <3>2. CASE g # h
        <4>1. g \in hcmd_map /\ hcmd'[g] = hcmd[g] /\ hcmd[g] \in HcmdEntry
          BY <1>0, <2>1, <3>2
        <4>2. hcmd[g].emu_id \in Nat /\ hcmd[g].emu_id <= emu_c
          BY <4>1 DEF HcmdEntry, IdInv
        <4> QED BY <1>0, <2>2, <4>1, <4>2
      <3> QED BY <3>1, <3>2
    <2> QED BY <2>3 DEF IdInv
  <1>2. CASE HandleFinish
    <2>1. \A g \in hcmd_map' : g \in hcmd_map /\ hcmd'[g] = hcmd[g]
      BY <1>0, <1>2 DEF HandleFinish
    <2> QED BY <1>2, <2>1 DEF HandleFinish, IdInv
  <1>3. CASE CqEntry
    <2>1. hcmd_map' = hcmd_map /\ emu_c' = emu_c /\ \A g \in Hcmd : hcmd'[g].emu_id = hcmd[g].emu_id
      BY <1>0, <1>3 DEF CqEntry, HcmdEntry
    <2> QED BY <1>0, <2>1 DEF IdInv
  <1>4. CASE UNCHANGED cmdVars
    BY <1>4 DEF cmdVars, IdInv
  <1> QED
    BY <1>1, <1>2, <1>3, <1>4
       DEF Next, PollStep, PollNone, PollNoEntry, TaskStep, NextQueue, HandleCheckcache, HandleTosqRetry,
           HandleTosq, BE_send_sq, HandleDatamove, HandleFromcq, SendLock, CqLock, CqStep, CqUnlock,
           BeLock, BeStep, BeWait, BeTake, BeDone, BeLockDone, BeSpuriousWake, vars

\* Commands are queued again only while no SQ entry is free.
LEMMA RetryStep ==
  ASSUME IInv, RetryInv, [Next]_vars
  PROVE  RetryInv'
  <1> DEFINE T == HCE_TO_SQ
  <1>0. tq[T] \in Seq(Hcmd) /\ Len(tq[T]) \in Nat /\ cnt \in Nat
    <2>1. tq[T] \in Seq(Hcmd)
      BY LineFacts, PlaceFacts
    <2>2. cnt \in Nat
      BY DEF IInv, TypeOK
    <2> QED BY <2>1, <2>2
  <1>1. CASE ~Draining' /\ pc' \notin {"send_lock", "send"}
    BY <1>1 DEF RetryInv
  <1>2. CASE PollStep
    <2>1. pc' = "nvme" \/ (pc' = "task" /\ i' = HCE_CHECK_CACHE)
      BY <1>2 DEF PollStep, PollAccept, PollNone, PollNoEntry, PollNext
    <2> QED BY <1>1, <2>1 DEF Draining, HCE_CHECK_CACHE, HCE_TO_SQ
  <1>3. CASE NextQueue
    <2>1. pc' \notin {"send_lock", "send"} /\ tq' = tq /\ (Draining' => cnt' = Len(tq[T]))
      BY <1>3 DEF NextQueue, Draining, HCE_TO_SQ
    <2> QED BY <1>0, <2>1 DEF RetryInv
  <1>4. CASE HandleCheckcache \/ HandleDatamove \/ HandleFromcq \/ HandleFinish
    <2>1. /\ \E s \in {HCE_CHECK_CACHE, HCE_DATAMOVED, HCE_FROM_CQ, HCE_FINISH} : Polled(s)
          /\ UNCHANGED <<pc, i>>
      BY <1>4, Zenon DEF HandleCheckcache, HandleDatamove, HandleFromcq, HandleFinish
    <2>2. pc' = "task" /\ i' # T
      BY <2>1 DEF Polled, HCE_CHECK_CACHE, HCE_TO_SQ, HCE_DATAMOVED, HCE_FROM_CQ, HCE_FINISH
    <2> QED BY <1>1, <2>2 DEF Draining
  <1>5. CASE HandleTosqRetry
    <2>1. sq_bitmap' = SqIndex /\ pc' = "task"
      BY <1>5 DEF HandleTosqRetry, Polled
    <2> QED BY <2>1 DEF RetryInv
  <1>6. CASE HandleTosq
    <2>1. /\ Draining /\ tq[T] # << >> /\ tq' = Dequeue(tq, T) /\ cnt' = cnt /\ pc' = "send_lock"
      BY <1>6 DEF HandleTosq, Polled, RemoveHead, Draining
    <2>2. sq_bitmap # SqIndex
      BY <1>6 DEF HandleTosq, FCL_get_free_SQ_entry, IsFirstFree
    <2>3. cnt <= Len(tq[T])
      BY <2>1 DEF IInv, ControlInv, LoopInv, SampleCovered, Draining
    <2>4. cnt = Len(tq[T])
      BY <1>0, <2>1, <2>2, <2>3 DEF RetryInv
    <2>5. tq'[T] = Tail(tq[T])
      BY <2>1, LineFacts, PlaceFacts DEF Dequeue
    <2>6. Len(tq'[T]) = cnt - 1
      BY <1>0, <2>1, <2>4, <2>5
    <2> QED BY <2>1, <2>6 DEF RetryInv, Draining
  <1>7. CASE SendLock
    BY <1>7 DEF SendLock, RetryInv, Draining
  <1>8. CASE BE_send_sq
    <2>1. cnt' = Len(tq[T]) /\ tq' = tq /\ pc' = "task"
      BY <1>8 DEF BE_send_sq, RetryInv
    <2> QED BY <1>0, <2>1 DEF RetryInv
  <1>9. CASE CqLock \/ CqStep
    <2>1. pc' \in {"cq", "nvme"}
      BY <1>9 DEF CqLock, CqStep, CqEntry, CqUnlock, ftlVars
    <2> QED BY <1>1, <2>1 DEF Draining
  <1>10. CASE BeLock \/ BeStep \/ BeLockDone \/ BeSpuriousWake \/ UNCHANGED vars
    <2>1. UNCHANGED <<tq, sq_bitmap, pc, i, cnt>>
      BY <1>10 DEF BeLock, BeStep, BeWait, BeTake, BeDone, BeLockDone, BeSpuriousWake, vars, ftlVars
    <2> QED BY <2>1 DEF RetryInv, Draining
  <1> QED BY <1>2, <1>3, <1>4, <1>5, <1>6, <1>7, <1>8, <1>9, <1>10 DEF Next, TaskStep

\* At the start no command is anywhere.
LEMMA OrderInit == Init => OrderInv
  <1> SUFFICES ASSUME Init PROVE OrderInv
    OBVIOUS
  <1>1. IInv
    BY TypeInit, PlaceInit, ControlInit DEF IInv
  <1>2. RetryInv /\ IdInv
    BY DEF Init, RetryInv, IdInv, Draining
  <1>3. \A p \in Place : \A a \in 1 .. Len(Line[p]) : FALSE
    BY <1>1, LineHolds DEF Init
  <1> QED BY <1>2, <1>3 DEF OrderInv, Ordered, InOrder

\* OrderInv is inductive together with IInv: of two commands of a kind, the
\* one that has come further was accepted earlier.
THEOREM OrderIsKept == Spec => []OrderInv
  <1>1. IInv /\ OrderInv /\ [Next]_vars => OrderInv'
    BY OrderStep, RetryStep, IdStep DEF OrderInv, Ordered
  <1> QED BY <1>1, OrderInit, Invariance, PTL DEF Spec

\* One-page commands of a kind finish in the order in which they were accepted.
THEOREM SameKindFinishesInOrder == Spec => SameKindInOrder
  <1> DEFINE A == \A h \in hcmd_map \ hcmd_map' : \A g \in hcmd_map :
                    hcmd[g].op_code = hcmd[h].op_code /\ hcmd[g].req_num = 1
                      => hcmd[h].emu_id <= hcmd[g].emu_id
             F == HCE_FINISH
  <1>1. IInv /\ OrderInv /\ [Next]_vars => [A]_vars
    <2> SUFFICES ASSUME IInv, OrderInv, Next, NEW h \in hcmd_map \ hcmd_map', NEW g \in hcmd_map,
                        hcmd[g].op_code = hcmd[h].op_code, hcmd[g].req_num = 1
                 PROVE  hcmd[h].emu_id <= hcmd[g].emu_id
      OBVIOUS
    <2>1. HandleFinish
      <3>1. \A op, size : PollAccept(op, size) => hcmd_map \subseteq hcmd_map'
        BY DEF PollAccept
      <3> QED
        BY <3>1 DEF Next, PollStep, PollNone, PollNoEntry, TaskStep, NextQueue, HandleCheckcache, HandleTosqRetry,
               HandleTosq, BE_send_sq, HandleDatamove, HandleFromcq, SendLock, CqLock, CqStep, CqEntry, CqUnlock,
               BeLock, BeStep, BeWait, BeTake, BeDone, BeLockDone, BeSpuriousWake, cmdVars
    <2>2. h = Head(tq[F]) /\ tq[F] # << >>
      BY <2>1 DEF HandleFinish, Polled
    <2>3. F \in Place /\ F \in Status /\ F # HCE_TO_SQ
      BY PlaceFacts DEF Status, HCE_CHECK_CACHE, HCE_TO_SQ, HCE_FINISH
    <2>4. Line[F] = tq[F] /\ tq[F] \in Seq(Hcmd)
      BY <2>3, LineFacts
    <2>5. 1 \in 1 .. Len(Line[F]) /\ Line[F][1] = h
      BY <2>2, <2>4
    <2>6. PICK p \in Place : \E a \in 1 .. Len(Line[p]) : Line[p][a] = g
      <3>1. g \in Members(tq) \cup FlightHcmds
        BY DEF IInv, PlaceInv, NoCommandLost
      <3> QED BY <3>1, LineHolds
    <2>7. PICK a \in 1 .. Len(Line[p]) : Line[p][a] = g
      BY <2>6
    <2>8. hcmd[h] \in HcmdEntry /\ hcmd[g] \in HcmdEntry /\ hcmd[h].op_code \in Ops
      BY DEF IInv, TypeOK, PlaceInv, StageInv
    <2>9. hcmd[h].emu_id \in Nat /\ hcmd[g].emu_id \in Nat
      BY <2>8 DEF HcmdEntry
    <2>10. CASE p = F /\ a = 1
      BY <2>5, <2>7, <2>9, <2>10
    <2>11. CASE p = F /\ a # 1
      <3>1. 1 < a
        BY <2>4, <2>11
      <3>2. Ahead(hcmd[h].op_code, F, 1, p, a)
        BY <2>11, <3>1 DEF Ahead
      <3>3. hcmd[h].emu_id < hcmd[g].emu_id
        BY <2>3, <2>5, <2>7, <3>2 DEF OrderInv, Ordered, InOrder
      <3> QED BY <2>9, <3>3
    <2>12. CASE p # F
      <3>1. Stage(hcmd[h].op_code, F) = 9
        BY DEF Stage, HCE_CHECK_CACHE, HCE_TO_SQ, HCE_DATAMOVED, HCE_FROM_CQ, HCE_FINISH
      <3>2. Stage(hcmd[h].op_code, p) \in 1 .. 9 /\ Stage(hcmd[h].op_code, p) # 9
        <4>1. /\ Stage(hcmd[h].op_code, p) \in 1 .. 9
              /\ Stage(hcmd[h].op_code, p) = Stage(hcmd[h].op_code, F) => p = F
          BY <2>3, <2>8, StageIsPlace
        <4> QED BY <2>12, <3>1, <4>1
      <3>3. Ahead(hcmd[h].op_code, F, 1, p, a)
        BY <3>1, <3>2 DEF Ahead
      <3>4. hcmd[h].emu_id < hcmd[g].emu_id
        BY <2>3, <2>5, <2>7, <3>3 DEF OrderInv, Ordered, InOrder
      <3> QED BY <2>9, <3>4
    <2> QED BY <2>10, <2>11, <2>12
  <1> QED BY <1>1, Invariance, OrderIsKept, PTL DEF Spec, SameKindInOrder
=============================================================================
