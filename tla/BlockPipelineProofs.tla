-------------------------- MODULE BlockPipelineProofs --------------------------
(***************************************************************************)
(* The processors of the block pipeline never trip over each other: for    *)
(* every DAG, every set of tasks and every schedule, each pending hash is  *)
(* moved by exactly one token and no expect, assert or append-only insert  *)
(* fails.                                                                  *)
(***************************************************************************)
EXTENDS BlockPipeline, SequenceTheorems, TLAPS

(* A task waits in the group of its own block. *)
Grouped ==
    \A s \in Stages, b \in Blocks : \A i \in 1..Len(queue[s][b]) : Block[queue[s][b][i]] = b

(* What the body processor is given has a header. *)
Headed ==
    /\ \A b \in Blocks : queue["body"][b] # <<>> => status[b] # "unknown"
    /\ \A i \in 1..Len(chan["body"]) :
          chan["body"][i] # Exit => status[Block[chan["body"][i]]] # "unknown"

Writes(v) == v.status # v.before

(* A status that a task is about to write over is still the one it read,   *)
(* only the transitions of its own stage are written, and no status goes   *)
(* back to unknown.                                                        *)
Current ==
    /\ \A b \in Blocks :
         /\ Writes(verdict["header"][b]) =>
              /\ verdict["header"][b].before = "unknown" /\ status[b] = "unknown"
              /\ verdict["header"][b].status \in {"header", "invalid"}
         /\ Writes(verdict["body"][b]) =>
              /\ verdict["body"][b].before = "header" /\ status[b] = "header"
              /\ verdict["body"][b].status \in {"body", "invalid"}
    /\ \A s \in Stages, b \in Blocks :
         /\ verdict[s][b].before # "unknown" => status[b] # "unknown"
         /\ verdict[s][b].result = "ok" => verdict[s][b].status # "unknown"

IInv == TypeOK /\ OneToken /\ Grouped /\ Headed /\ Current /\ NoPanic

(* The sequences the processors use: what Append and Tail do to the        *)
(* elements and to emptiness.                                              *)
LEMMA AppendElements ==
    ASSUME NEW S, NEW q \in Seq(S), NEW x \in S
    PROVE  /\ Append(q, x) \in Seq(S)
           /\ Append(q, x) # <<>>
           /\ Len(Append(q, x)) = Len(q) + 1
           /\ \A i \in 1..Len(q) : Append(q, x)[i] = q[i]
           /\ Append(q, x)[Len(q) + 1] = x
           /\ \A i \in 1..Len(Append(q, x)) :
                 (i \in 1..Len(q) /\ Append(q, x)[i] = q[i]) \/ Append(q, x)[i] = x
  OBVIOUS

LEMMA TailElements ==
    ASSUME NEW S, NEW q \in Seq(S), q # <<>>
    PROVE  /\ Head(q) \in S
           /\ Head(q) = q[1]
           /\ 1 \in 1..Len(q)
           /\ Tail(q) \in Seq(S)
           /\ Len(Tail(q)) = Len(q) - 1
           /\ \A i \in 1..Len(Tail(q)) : Tail(q)[i] = q[i + 1] /\ i + 1 \in 1..Len(q)
           /\ Tail(q) = <<>> <=> Len(q) = 1
           /\ Tail(q) = <<>> <=> ~ (Len(q) > 1)
  <1>1. Len(q) \in Nat /\ Len(q) # 0
      OBVIOUS
  <1>2. Head(q) = q[1] /\ 1 \in 1..Len(q) /\ Head(q) \in S
      BY <1>1
  <1>3. /\ Tail(q) \in Seq(S) /\ Len(Tail(q)) = Len(q) - 1
        /\ \A i \in 1..Len(Tail(q)) : Tail(q)[i] = q[i + 1]
      BY HeadTailProperties
  <1>4. \A i \in 1..Len(Tail(q)) : i + 1 \in 1..Len(q)
      BY <1>1, <1>3
  <1>5. Tail(q) = <<>> <=> Len(Tail(q)) = 0
      BY <1>3, EmptySeq
  <1>0. \A n \in Nat : n # 0 => (n = 1 <=> ~ (n > 1))
      OBVIOUS
  <1>6. (Len(q) = 1) <=> ~ (Len(q) > 1)
      BY <1>0, <1>1, Zenon
  <1>7. (Len(q) = 1) <=> Len(Tail(q)) = 0
      BY <1>1, <1>3
  <1> QED BY <1>2, <1>3, <1>4, <1>5, <1>6, <1>7

(* Initially nothing is pending. *)
LEMMA InitHolds == Init => IInv
  <1> SUFFICES ASSUME Init PROVE IInv
      OBVIOUS
  <1> USE PipelineAssumption
  <1>1. TypeOK
      BY DEF Init, TypeOK, Stages, NotYet, Results, Statuses
  <1>2. OneToken
      BY DEF Init, OneToken, Pending, Stages
  <1>3. Grouped /\ Headed
      BY DEF Init, Grouped, Headed, Stages
  <1>4. Current
      BY DEF Init, Current, Writes, NotYet, Stages
  <1>5. NoPanic
      BY DEF Init, NoPanic
  <1> QED BY <1>1, <1>2, <1>3, <1>4, <1>5 DEF IInv
---------------------------------------------------------------------------
(* OneToken, of one stage: P is what is pending, J, K and D are the jobs,  *)
(* the taken hashes and the dependents.  Balanced says it by elements.     *)
TokenSets(P, J, K, D) ==
    /\ P = J \union K \union UNION {D[p] : p \in P}
    /\ J \intersect K = {}
    /\ \A p \in Blocks :
         /\ D[p] \intersect (J \union K) = {}
         /\ \A q \in Blocks \ {p} : D[p] \intersect D[q] = {}
         /\ D[p] # {} => p \in P

Balanced(P, J, K, D) ==
    /\ \A x \in Blocks : x \in P <=> x \in J \/ x \in K \/ \E p \in P : x \in D[p]
    /\ \A x \in Blocks : ~ (x \in J /\ x \in K)
    /\ \A p \in Blocks, x \in Blocks : x \in D[p] =>
          /\ p \in P /\ x \notin J /\ x \notin K
          /\ \A q \in Blocks : x \in D[q] => q = p

LEMMA TokenIsBalanced ==
    ASSUME NEW P \in SUBSET Blocks, NEW J \in SUBSET Blocks, NEW K \in SUBSET Blocks,
           NEW D \in [Blocks -> SUBSET Blocks]
    PROVE  Balanced(P, J, K, D) <=> TokenSets(P, J, K, D)
  <1>1. \A p \in Blocks : D[p] \subseteq Blocks
      OBVIOUS
  <1>2. ASSUME Balanced(P, J, K, D), NEW p \in Blocks
        PROVE  /\ D[p] \intersect (J \union K) = {}
               /\ \A q \in Blocks \ {p} : D[p] \intersect D[q] = {}
               /\ D[p] # {} => p \in P
      BY <1>1, <1>2 DEF Balanced
  <1>3. ASSUME Balanced(P, J, K, D)
        PROVE  P = J \union K \union UNION {D[p] : p \in P} /\ J \intersect K = {}
      BY <1>1, <1>3 DEF Balanced
  <1>4. ASSUME TokenSets(P, J, K, D)
        PROVE  Balanced(P, J, K, D)
      BY <1>1, <1>4 DEF Balanced, TokenSets
  <1> QED BY <1>2, <1>3, <1>4 DEF TokenSets

(* A token is created with its group. *)
LEMMA TokenCreated ==
    ASSUME NEW P \in SUBSET Blocks, NEW J \in SUBSET Blocks, NEW K \in SUBSET Blocks,
           NEW D \in [Blocks -> SUBSET Blocks], NEW b \in Blocks, Balanced(P, J, K, D)
    PROVE  /\ Balanced(P \union {b}, J \union ({b} \ P), K, D)
           /\ ({b} \ P) \intersect J = {}
  BY DEF Balanced

(* The token of a job moves to the thread that takes the task, ...         *)
LEMMA TokenTaken ==
    ASSUME NEW P \in SUBSET Blocks, NEW J \in SUBSET Blocks, NEW K \in SUBSET Blocks,
           NEW D \in [Blocks -> SUBSET Blocks], NEW b \in Blocks, b \in J, Balanced(P, J, K, D)
    PROVE  b \in P /\ b \notin K /\ Balanced(P, J \ {b}, K \union {b}, D)
  BY DEF Balanced

(* ... or to the dependents of a pending parent.                           *)
LEMMA TokenPostponed ==
    ASSUME NEW P \in SUBSET Blocks, NEW J \in SUBSET Blocks, NEW K \in SUBSET Blocks,
           NEW D \in [Blocks -> SUBSET Blocks], NEW b \in J, NEW p \in P, Balanced(P, J, K, D)
    PROVE  b \notin D[p] /\ Balanced(P, J \ {b}, K, [D EXCEPT ![p] = D[p] \union {b}])
  BY DEF Balanced

(* The token of a taken task goes back to the jobs while the group has     *)
(* tasks left; otherwise it ends and the dependents' tokens become jobs.   *)
LEMMA TokenAgain ==
    ASSUME NEW P \in SUBSET Blocks, NEW J \in SUBSET Blocks, NEW K \in SUBSET Blocks,
           NEW D \in [Blocks -> SUBSET Blocks], NEW b \in Blocks, b \in K, Balanced(P, J, K, D)
    PROVE  b \notin J /\ Balanced(P, J \union {b}, K \ {b}, D)
  BY DEF Balanced

LEMMA TokenEnds ==
    ASSUME NEW P \in SUBSET Blocks, NEW J \in SUBSET Blocks, NEW K \in SUBSET Blocks,
           NEW D \in [Blocks -> SUBSET Blocks], NEW b \in Blocks, b \in K, Balanced(P, J, K, D)
    PROVE  /\ D[b] \intersect J = {}
           /\ Balanced(P \ {b}, J \union D[b], K \ {b}, [D EXCEPT ![b] = {}])
  BY DEF Balanced

Tokens(s) == Balanced(Pending(s), jobs[s], taken[s], deps[s])

LEMMA TokensOfEachStage ==
    /\ IInv => \A s \in Stages : Tokens(s)
    /\ TypeOK' /\ (\A s \in Stages : Tokens(s)') => OneToken'
  <1>1. ASSUME IInv, NEW s \in Stages PROVE Tokens(s)
    <2>1. /\ Pending(s) \in SUBSET Blocks /\ jobs[s] \in SUBSET Blocks
          /\ taken[s] \in SUBSET Blocks /\ deps[s] \in [Blocks -> SUBSET Blocks]
        BY <1>1 DEF IInv, TypeOK, Pending
    <2>2. TokenSets(Pending(s), jobs[s], taken[s], deps[s])
        BY <1>1 DEF IInv, OneToken, TokenSets
    <2> QED BY <2>1, <2>2, TokenIsBalanced DEF Tokens
  <1>2. ASSUME TypeOK', \A s \in Stages : Tokens(s)' PROVE OneToken'
    <2> SUFFICES ASSUME NEW s \in Stages
                 PROVE  TokenSets(Pending(s)', jobs'[s], taken'[s], deps'[s])
        BY DEF OneToken, TokenSets
    <2>1. /\ Pending(s)' \in SUBSET Blocks /\ jobs'[s] \in SUBSET Blocks
          /\ taken'[s] \in SUBSET Blocks /\ deps'[s] \in [Blocks -> SUBSET Blocks]
        BY <1>2 DEF TypeOK, Pending
    <2>2. Balanced(Pending(s)', jobs'[s], taken'[s], deps'[s])
        BY <1>2 DEF Tokens, Balanced
    <2> QED BY <2>1, <2>2, TokenIsBalanced
  <1> QED BY <1>1, <1>2

---------------------------------------------------------------------------
(* A step that only moves messages and workers. *)
LEMMA QuietStep ==
    ASSUME IInv,
           UNCHANGED <<world, queue, deps, jobs, taken, verdict, status, faults>>,
           TypeOK',
           \A i \in 1..Len(chan'["body"]) : chan'["body"][i] # Exit =>
              \E j \in 1..Len(chan["body"]) : chan["body"][j] = chan'["body"][i]
    PROVE  IInv'
  <1>1. OneToken' /\ Grouped' /\ NoPanic'
      BY DEF IInv, OneToken, Pending, Grouped, NoPanic
  <1>2. Headed'
      BY DEF IInv, Headed
  <1>3. Current'
      BY DEF IInv, Current
  <1> QED BY <1>1, <1>2, <1>3 DEF IInv

LEMMA SendStep ==
    ASSUME IInv, NEW m \in Tasks \union {Exit}, Send(m)
    PROVE  IInv'
  <1>1. /\ sent' \in Seq(Tasks \union {Exit})
        /\ chan' \in [Stages \union {"virtual"} -> Seq(Tasks \union {Exit})]
        /\ chan'["body"] = chan["body"]
      BY DEF IInv, TypeOK, Send, Stages
  <1>2. TypeOK'
      BY <1>1 DEF IInv, TypeOK, Send
  <1> QED BY <1>1, <1>2, QuietStep DEF Send

LEMMA WorkerStep ==
    ASSUME IInv, NEW s \in Stages, ReceiveExit(s) \/ Wait(s) \/ PassExit(s)
    PROVE  IInv'
  <1> USE DEF Stages
  <1>0. TypeOK /\ s \in Stages \union {"virtual"} /\ Following[s] \in Stages \union {"virtual"}
      BY DEF IInv, Following
  <1>1. CASE ReceiveExit(s)
    <2>1. /\ Tail(chan[s]) \in Seq(Tasks \union {Exit})
          /\ \A i \in 1..Len(Tail(chan[s])) :
                Tail(chan[s])[i] = chan[s][i + 1] /\ i + 1 \in 1..Len(chan[s])
        BY <1>0, <1>1, TailElements DEF TypeOK, ReceiveExit
    <2>2. TypeOK'
        BY <1>0, <1>1, <2>1 DEF TypeOK, ReceiveExit
    <2>3. \A i \in 1..Len(chan'["body"]) : chan'["body"][i] # Exit =>
             \E j \in 1..Len(chan["body"]) : chan["body"][j] = chan'["body"][i]
      <3>1. CASE s = "body"
        <4>1. chan'["body"] = Tail(chan["body"])
            BY <1>0, <1>1, <3>1 DEF TypeOK, ReceiveExit
        <4> QED BY <2>1, <3>1, <4>1
      <3>2. CASE s # "body"
        <4>1. chan'["body"] = chan["body"]
            BY <1>0, <1>1, <3>2 DEF TypeOK, ReceiveExit
        <4> QED BY <4>1
      <3> QED BY <3>1, <3>2
    <2> QED BY <1>1, <2>2, <2>3, QuietStep DEF ReceiveExit
  <1>2. CASE Wait(s)
    <2>1. TypeOK'
        BY <1>0, <1>2 DEF TypeOK, Wait
    <2> QED BY <1>2, <2>1, QuietStep DEF Wait
  <1>3. CASE PassExit(s)
    <2> DEFINE f == Following[s]
    <2>1. /\ Append(chan[f], Exit) \in Seq(Tasks \union {Exit})
          /\ Len(Append(chan[f], Exit)) = Len(chan[f]) + 1
          /\ \A i \in 1..Len(chan[f]) : Append(chan[f], Exit)[i] = chan[f][i]
          /\ Append(chan[f], Exit)[Len(chan[f]) + 1] = Exit
        BY <1>0, AppendElements DEF TypeOK
    <2>2. TypeOK'
        BY <1>0, <1>3, <2>1 DEF TypeOK, PassExit
    <2>3. \A i \in 1..Len(chan'["body"]) : chan'["body"][i] # Exit =>
             \E j \in 1..Len(chan["body"]) : chan["body"][j] = chan'["body"][i]
      <3>1. CASE f = "body"
        <4>1. chan'["body"] = Append(chan["body"], Exit) /\ Len(chan["body"]) \in Nat
            BY <1>0, <1>3, <3>1 DEF TypeOK, PassExit
        <4>2. \A i \in 1..Len(chan'["body"]) :
                 i \in 1..Len(chan["body"]) \/ i = Len(chan["body"]) + 1
            BY <2>1, <3>1, <4>1
        <4> QED BY <2>1, <3>1, <4>1, <4>2
      <3>2. CASE f # "body"
        <4>1. chan'["body"] = chan["body"]
            BY <1>0, <1>3, <3>2 DEF TypeOK, PassExit
        <4> QED BY <4>1
      <3> QED BY <3>1, <3>2
    <2> QED BY <1>3, <2>2, <2>3, QuietStep DEF PassExit
  <1> QED BY <1>1, <1>2, <1>3

LEMMA VirtualStep ==
    ASSUME IInv, Resolve \/ ExitVirtual
    PROVE  IInv'
  <1> USE DEF Stages
  <1>0. TypeOK
      BY DEF IInv
  <1>1. CASE Resolve
    <2>1. PICK n \in 1..Len(chan["virtual"]) : Resolve!4!(n)
        BY <1>1 DEF Resolve
    <2>2. SubSeq(chan["virtual"], n + 1, Len(chan["virtual"])) \in Seq(Tasks \union {Exit})
        BY <1>0, <2>1, SubSeqProperties DEF TypeOK
    <2>3. chan' \in [Stages \union {"virtual"} -> Seq(Tasks \union {Exit})]
          /\ chan'["body"] = chan["body"]
        BY <1>0, <2>1, <2>2 DEF TypeOK
    <2>4. answer' \in [Tasks -> [block : Results, virtual : Results]]
        BY <1>0, <2>1, ZenonT(90) DEF TypeOK, Results
    <2>5. worker' \in [Stages \union {"virtual"} ->
                         {"receiving", "exiting", "waiting", "woken", "closed"}]
        BY <1>0, <2>1 DEF TypeOK
    <2>6. TypeOK'
        BY <1>0, <1>1, <2>3, <2>4, <2>5 DEF TypeOK, Resolve
    <2> QED BY <1>1, <2>3, <2>6, QuietStep DEF Resolve
  <1>2. CASE ExitVirtual
    <2>1. chan' \in [Stages \union {"virtual"} -> Seq(Tasks \union {Exit})]
          /\ chan'["body"] = chan["body"]
        BY <1>0, <1>2, TailElements DEF TypeOK, ExitVirtual
    <2>2. TypeOK'
        BY <1>0, <1>2, <2>1 DEF TypeOK, ExitVirtual
    <2> QED BY <1>2, <2>1, <2>2, QuietStep DEF ExitVirtual
  <1> QED BY <1>1, <1>2

---------------------------------------------------------------------------
(* The steps of the dependency manager. *)
LEMMA RegisterStep ==
    ASSUME IInv, NEW s \in Stages, Register(s)
    PROVE  IInv'
  <1> USE DEF Stages
  <1> DEFINE t == Head(chan[s])
             b == Block[t]
             q == queue[s][b]
  <1>0. TypeOK /\ Grouped /\ Headed /\ NoPanic
      BY DEF IInv
  <1>1. /\ t \in Tasks /\ t = chan[s][1] /\ 1 \in 1..Len(chan[s]) /\ t # Exit
        /\ Tail(chan[s]) \in Seq(Tasks \union {Exit})
        /\ \A i \in 1..Len(Tail(chan[s])) :
              Tail(chan[s])[i] = chan[s][i + 1] /\ i + 1 \in 1..Len(chan[s])
    <2>1. chan[s] \in Seq(Tasks \union {Exit}) /\ chan[s] # <<>> /\ t # Exit
        BY <1>0 DEF TypeOK, Register
    <2> QED BY <2>1, TailElements
  <1>2. b \in Blocks /\ q \in Seq(Tasks)
      BY <1>0, <1>1, PipelineAssumption DEF TypeOK
  <1> HIDE DEF q
  <1>3. /\ Append(q, t) \in Seq(Tasks) /\ Append(q, t) # <<>>
        /\ \A i \in 1..Len(Append(q, t)) :
              (i \in 1..Len(q) /\ Append(q, t)[i] = q[i]) \/ Append(q, t)[i] = t
      BY <1>1, <1>2, AppendElements
  <1>4. /\ queue' = [queue EXCEPT ![s] = [queue[s] EXCEPT ![b] = Append(q, t)]]
        /\ jobs' = [jobs EXCEPT ![s] = jobs[s] \union ({b} \ Pending(s))]
        /\ chan' = [chan EXCEPT ![s] = Tail(chan[s])]
        /\ UNCHANGED <<world, sent, worker, deps, taken, verdict, status, answer>>
      BY DEF Register, q
  <1> HIDE DEF t, b, q
  <1>5. /\ queue'[s][b] = Append(q, t)
        /\ \A r \in Stages, x \in Blocks : ~ (r = s /\ x = b) => queue'[r][x] = queue[r][x]
      BY <1>0, <1>2, <1>4 DEF TypeOK
  <1>6. TypeOK'
    <2>1. queue' \in [Stages -> [Blocks -> Seq(Tasks)]]
        BY <1>0, <1>2, <1>3, <1>4 DEF TypeOK
    <2>2. jobs' \in [Stages -> SUBSET Blocks]
        BY <1>0, <1>2, <1>4 DEF TypeOK
    <2>3. chan' \in [Stages \union {"virtual"} -> Seq(Tasks \union {Exit})]
        BY <1>0, <1>1, <1>4 DEF TypeOK
    <2> QED BY <1>0, <1>4, <2>1, <2>2, <2>3 DEF TypeOK
  <1>7. OneToken' /\ ({b} \ Pending(s)) \intersect jobs[s] = {}
    <2>1. /\ Pending(s)' = Pending(s) \union {b}
          /\ \A r \in Stages \ {s} : Pending(r)' = Pending(r)
        BY <1>2, <1>3, <1>5 DEF Pending
    <2>2. /\ jobs'[s] = jobs[s] \union ({b} \ Pending(s))
          /\ \A r \in Stages \ {s} : jobs'[r] = jobs[r]
        BY <1>0, <1>4 DEF TypeOK
    <2>3. \A r \in Stages : Tokens(r)
        BY TokensOfEachStage
    <2>4. /\ Pending(s) \in SUBSET Blocks /\ jobs[s] \in SUBSET Blocks
          /\ taken[s] \in SUBSET Blocks /\ deps[s] \in [Blocks -> SUBSET Blocks]
        BY <1>0 DEF TypeOK, Pending
    <2>5. /\ Balanced(Pending(s) \union {b}, jobs[s] \union ({b} \ Pending(s)), taken[s], deps[s])
          /\ ({b} \ Pending(s)) \intersect jobs[s] = {}
        BY <1>2, <2>3, <2>4, TokenCreated, ZenonT(90) DEF Tokens
    <2>6. \A r \in Stages : Tokens(r)'
        BY <1>4, <2>1, <2>2, <2>3, <2>5 DEF Tokens
    <2> QED BY <1>6, <2>5, <2>6, TokensOfEachStage
  <1>8. Grouped'
    <2>1. \A i \in 1..Len(Append(q, t)) : Block[Append(q, t)[i]] = b
        BY <1>0, <1>2, <1>3 DEF Grouped, q, b
    <2> QED BY <1>0, <1>5, <2>1, SMTT(60) DEF Grouped
  <1>9. Headed'
    <2>1. ASSUME NEW x \in Blocks, queue'["body"][x] # <<>>
          PROVE  status'[x] # "unknown"
      <3>1. CASE s = "body" /\ x = b
          BY <1>0, <1>1, <1>4, <3>1 DEF Headed, b
      <3>2. CASE ~ (s = "body" /\ x = b)
          BY <1>0, <1>4, <1>5, <2>1, <3>2 DEF Headed
      <3> QED BY <3>1, <3>2
    <2>2. ASSUME NEW i \in 1..Len(chan'["body"]), chan'["body"][i] # Exit
          PROVE  status'[Block[chan'["body"][i]]] # "unknown"
      <3>1. \E j \in 1..Len(chan["body"]) : chan["body"][j] = chan'["body"][i]
        <4>1. CASE s = "body"
          <5>1. chan'["body"] = Tail(chan["body"])
              BY <1>0, <1>4, <4>1 DEF TypeOK
          <5> QED BY <1>1, <2>2, <4>1, <5>1
        <4>2. CASE s # "body"
          <5>1. chan'["body"] = chan["body"]
              BY <1>0, <1>4, <4>2 DEF TypeOK
          <5> QED BY <2>2, <5>1
        <4> QED BY <4>1, <4>2
      <3> QED BY <1>0, <1>4, <2>2, <3>1 DEF Headed
    <2> QED BY <2>1, <2>2 DEF Headed
  <1>10. Current'
      BY <1>4 DEF IInv, Current
  <1>11. NoPanic'
    <2>1. faults' = faults \union
             IF ({b} \ Pending(s)) \intersect jobs[s] # {} THEN {"duplicate"} ELSE {}
        BY DEF Register, b, t
    <2> QED BY <1>0, <1>7, <2>1 DEF NoPanic
  <1> QED BY <1>6, <1>7, <1>8, <1>9, <1>10, <1>11 DEF IInv

LEMMA BeginStep ==
    ASSUME IInv, NEW s \in Stages, NEW b \in Blocks, Begin(s, b)
    PROVE  IInv'
  <1> USE DEF Stages
  <1>0. TypeOK /\ NoPanic /\ b \in jobs[s]
      BY DEF IInv, Begin
  <1>1. /\ UNCHANGED <<world, sent, chan, worker, queue, deps, verdict, status, answer>>
        /\ \A r \in Stages : Pending(r)' = Pending(r)
      BY DEF Begin, Pending
  <1>2. /\ jobs'[s] = jobs[s] \ {b} /\ taken'[s] = taken[s] \union {b}
        /\ \A r \in Stages \ {s} : jobs'[r] = jobs[r] /\ taken'[r] = taken[r]
      BY <1>0 DEF TypeOK, Begin
  <1>3. TypeOK'
    <2>1. jobs' \in [Stages -> SUBSET Blocks] /\ taken' \in [Stages -> SUBSET Blocks]
        BY <1>0 DEF TypeOK, Begin
    <2> QED BY <1>0, <1>1, <2>1 DEF TypeOK
  <1>4. \A r \in Stages : Tokens(r)
      BY TokensOfEachStage
  <1>5. /\ b \in Pending(s) /\ b \notin taken[s]
        /\ Balanced(Pending(s), jobs[s] \ {b}, taken[s] \union {b}, deps[s])
    <2>1. /\ Pending(s) \in SUBSET Blocks /\ jobs[s] \in SUBSET Blocks
          /\ taken[s] \in SUBSET Blocks /\ deps[s] \in [Blocks -> SUBSET Blocks]
        BY <1>0 DEF TypeOK, Pending
    <2>2. Balanced(Pending(s), jobs[s], taken[s], deps[s])
        BY <1>4 DEF Tokens
    <2> QED BY <1>0, <2>1, <2>2, TokenTaken
  <1>6. OneToken'
    <2>1. \A r \in Stages : Tokens(r)'
        BY <1>1, <1>2, <1>4, <1>5 DEF Tokens
    <2> QED BY <1>3, <2>1, TokensOfEachStage
  <1>7. NoPanic'
      BY <1>0, <1>5 DEF Begin, BeginFaults, Pending, NoPanic
  <1>8. Grouped' /\ Headed'
      BY <1>1 DEF IInv, Grouped, Headed
  <1>9. Current'
      BY <1>1 DEF IInv, Current
  <1> QED BY <1>3, <1>6, <1>7, <1>8, <1>9 DEF IInv

LEMMA PostponeStep ==
    ASSUME IInv, NEW s \in Stages, NEW b \in Blocks, Postpone(s, b)
    PROVE  IInv'
  <1> USE DEF Stages
  <1>0. TypeOK /\ NoPanic /\ b \in jobs[s]
      BY DEF IInv, Postpone
  <1>1. /\ UNCHANGED <<world, sent, chan, worker, queue, taken, verdict, status, answer>>
        /\ \A r \in Stages : Pending(r)' = Pending(r)
      BY DEF Postpone, Pending
  <1>2. PICK p \in PendingParents(s, b) :
           /\ deps' = [deps EXCEPT ![s] = [deps[s] EXCEPT ![p] = @ \union {b}]]
           /\ faults' = faults \union BeginFaults(s, b)
                          \union IF b \in deps[s][p] THEN {"duplicate"} ELSE {}
      BY DEF Postpone
  <1>3. p \in Pending(s) /\ p \in Blocks
      BY DEF PendingParents, Pending
  <1>4. /\ jobs'[s] = jobs[s] \ {b} /\ deps'[s] = [deps[s] EXCEPT ![p] = @ \union {b}]
        /\ \A r \in Stages \ {s} : jobs'[r] = jobs[r] /\ deps'[r] = deps[r]
      BY <1>0, <1>2 DEF TypeOK, Postpone
  <1>5. TypeOK'
    <2>1. jobs' \in [Stages -> SUBSET Blocks]
        BY <1>0 DEF TypeOK, Postpone
    <2>2. deps' \in [Stages -> [Blocks -> SUBSET Blocks]]
        BY <1>0, <1>2, <1>3 DEF TypeOK
    <2> QED BY <1>0, <1>1, <2>1, <2>2 DEF TypeOK
  <1>6. \A r \in Stages : Tokens(r)
      BY TokensOfEachStage
  <1>7. /\ b \in Pending(s) /\ b \notin taken[s] /\ b \notin deps[s][p]
        /\ Balanced(Pending(s), jobs[s] \ {b}, taken[s], [deps[s] EXCEPT ![p] = @ \union {b}])
    <2>1. /\ Pending(s) \in SUBSET Blocks /\ jobs[s] \in SUBSET Blocks
          /\ taken[s] \in SUBSET Blocks /\ deps[s] \in [Blocks -> SUBSET Blocks]
        BY <1>0 DEF TypeOK, Pending
    <2>2. Balanced(Pending(s), jobs[s], taken[s], deps[s])
        BY <1>6 DEF Tokens
    <2>3. /\ b \in Pending(s) /\ b \notin taken[s]
          /\ Balanced(Pending(s), jobs[s] \ {b}, taken[s] \union {b}, deps[s])
        BY <1>0, <2>1, <2>2, TokenTaken, SMTT(90)
    <2> QED BY <1>0, <1>3, <2>1, <2>2, <2>3, TokenPostponed
  <1>8. OneToken'
    <2>1. \A r \in Stages : Tokens(r)'
        BY <1>1, <1>4, <1>6, <1>7 DEF Tokens
    <2> QED BY <1>5, <2>1, TokensOfEachStage
  <1>9. NoPanic'
      BY <1>0, <1>2, <1>7 DEF BeginFaults, Pending, NoPanic
  <1>10. Grouped' /\ Headed'
      BY <1>1 DEF IInv, Grouped, Headed
  <1>11. Current'
      BY <1>1 DEF IInv, Current
  <1> QED BY <1>5, <1>8, <1>9, <1>10, <1>11 DEF IInv

(* What validating a task can find, given the status it reads. *)
LEMMA HeaderVerdicts ==
    ASSUME TypeOK, NEW t \in Tasks
    PROVE  LET v == ProcessHeader(t)
               old == status[Block[t]]
           IN /\ v.result \in Results /\ v.status \in Statuses
              /\ v.status # old => old = "unknown" /\ v.status \in {"header", "invalid"}
              /\ v.result = "ok" => v.status # "unknown"
  <1>1. status[Block[t]] \in Statuses
      BY PipelineAssumption DEF TypeOK
  <1> QED BY <1>1 DEF ProcessHeader, Statuses, Results

LEMMA BodyVerdicts ==
    ASSUME TypeOK, NEW t \in Tasks, status[Block[t]] # "unknown"
    PROVE  LET v == ProcessBody(t)
               old == status[Block[t]]
           IN /\ v.result \in Results /\ v.status \in Statuses
              /\ v.status # old => old = "header" /\ v.status \in {"body", "invalid"}
              /\ v.result = "ok" => v.status # "unknown"
  <1>1. status[Block[t]] \in Statuses
      BY PipelineAssumption DEF TypeOK
  <1> QED BY <1>1 DEF ProcessBody, Statuses, Results

LEMMA ProcessStep ==
    ASSUME IInv, NEW s \in Stages, NEW b \in Blocks, Process(s, b)
    PROVE  IInv'
  <1> USE DEF Stages
  <1> DEFINE t == Head(queue[s][b])
             v == IF s = "header" THEN ProcessHeader(t) ELSE ProcessBody(t)
             w == [result |-> v.result, status |-> v.status, before |-> status[b]]
  <1>0. TypeOK /\ NoPanic /\ Grouped /\ Headed /\ Current
      BY DEF IInv
  <1>1. t \in Tasks /\ Block[t] = b
    <2>1. queue[s][b] \in Seq(Tasks) /\ queue[s][b] # <<>>
        BY <1>0 DEF TypeOK, Process
    <2>2. t \in Tasks /\ t = queue[s][b][1] /\ 1 \in 1..Len(queue[s][b])
        BY <2>1, TailElements
    <2> QED BY <1>0, <2>2 DEF Grouped
  <1>2. UNCHANGED <<world, sent, chan, worker, queue, deps, jobs, taken, status, answer>>
      BY DEF Process
  <1>3. /\ verdict' = [verdict EXCEPT ![s] = [verdict[s] EXCEPT ![b] = w]]
        /\ faults' = faults \union IF v.result = "panic" THEN {"unexpected status"} ELSE {}
      BY DEF Process
  <1>4. status[b] \in Statuses
      BY <1>0 DEF TypeOK
  <1>5. /\ v.result \in Results /\ v.status \in Statuses
        /\ v.result = "ok" => v.status # "unknown"
        /\ s = "header" /\ v.status # status[b] =>
              status[b] = "unknown" /\ v.status \in {"header", "invalid"}
        /\ s = "body" /\ v.status # status[b] =>
              status[b] = "header" /\ v.status \in {"body", "invalid"}
    <2>1. CASE s = "header"
        BY <1>0, <1>1, <2>1, HeaderVerdicts
    <2>2. CASE s = "body"
      <3>1. status[Block[t]] # "unknown"
          BY <1>0, <1>1, <2>2 DEF Headed, Process
      <3> QED BY <1>0, <1>1, <2>2, <3>1, BodyVerdicts
    <2> QED BY <2>1, <2>2
  <1> HIDE DEF v
  <1>6. /\ w.result = v.result /\ w.status = v.status /\ w.before = status[b]
        /\ w \in [result : Results, status : Statuses, before : Statuses]
      BY <1>4, <1>5
  <1> HIDE DEF w
  <1>7. /\ verdict'[s][b] = w
        /\ \A r \in Stages, x \in Blocks : ~ (r = s /\ x = b) => verdict'[r][x] = verdict[r][x]
      BY <1>0, <1>3 DEF TypeOK
  <1>8. TypeOK'
    <2>1. verdict' \in [Stages -> [Blocks ->
                          [result : Results, status : Statuses, before : Statuses]]]
        BY <1>0, <1>3, <1>6 DEF TypeOK
    <2> QED BY <1>0, <1>2, <2>1 DEF TypeOK
  <1>9. OneToken' /\ Grouped' /\ Headed'
    <2>1. OneToken'
        BY <1>2 DEF IInv, OneToken, Pending
    <2> QED BY <1>0, <1>2, <2>1 DEF Grouped, Headed
  <1>10. NoPanic'
      BY <1>0, <1>3, <1>5 DEF NoPanic, Results
  <1>11. Current'
    <2> SUFFICES ASSUME NEW x \in Blocks
                 PROVE  /\ Current!1!(x)'
                        /\ \A r \in Stages : Current!2!(r, x)'
        BY DEF Current
    <2>1. status'[x] = status[x]
        BY <1>2
    <2>2. CASE x # b
      <3>1. verdict'["header"][x] = verdict["header"][x] /\ verdict'["body"][x] = verdict["body"][x]
          BY <1>7, <2>2
      <3> QED BY <1>0, <2>1, <3>1 DEF Current, Writes
    <2>3. CASE x = b /\ s = "header"
      <3>1. verdict'["header"][x] = w /\ verdict'["body"][x] = verdict["body"][x]
          BY <1>7, <2>3
      <3> QED BY <1>0, <1>5, <1>6, <2>1, <2>3, <3>1 DEF Current, Writes
    <2>4. CASE x = b /\ s = "body"
      <3>1. verdict'["header"][x] = verdict["header"][x] /\ verdict'["body"][x] = w
          BY <1>7, <2>4
      <3> QED BY <1>0, <1>5, <1>6, <2>1, <2>4, <3>1 DEF Current, Writes
    <2> QED BY <2>2, <2>3, <2>4
  <1> QED BY <1>8, <1>9, <1>10, <1>11 DEF IInv

(* What Finish writes to the statuses, from the verdict that the task      *)
(* reached earlier: the status is still the one that was read.             *)
LEMMA FinishWrites ==
    ASSUME IInv, NEW s \in Stages, NEW b \in Blocks, Finish(s, b)
    PROVE  /\ status' \in [Blocks -> Statuses]
           /\ \A x \in Blocks \ {b} : status'[x] = status[x]
           /\ status'[b] # status[b] =>
                 \/ s = "header" /\ status[b] = "unknown" /\ status'[b] \in {"header", "invalid"}
                 \/ s = "body" /\ status[b] = "header" /\ status'[b] \in {"body", "invalid"}
           /\ verdict[s][b].result = "ok" => status'[b] # "unknown"
           /\ Writes(verdict[s][b]) => status[b] = verdict[s][b].before
  <1> USE DEF Stages
  <1>1. TypeOK /\ Current
      BY DEF IInv
  <1>2. status' = IF Writes(verdict[s][b]) THEN [status EXCEPT ![b] = verdict[s][b].status]
                  ELSE status
      BY DEF Finish, Writes
  <1>3. verdict[s][b] \in [result : Results, status : Statuses, before : Statuses]
      BY <1>1 DEF TypeOK
  <1>4. status' \in [Blocks -> Statuses] /\ \A x \in Blocks \ {b} : status'[x] = status[x]
      BY <1>1, <1>2, <1>3 DEF TypeOK
  <1>5. /\ Writes(verdict[s][b]) => status'[b] = verdict[s][b].status
        /\ ~ Writes(verdict[s][b]) => status'[b] = status[b]
      BY <1>1, <1>2 DEF TypeOK
  <1>6. CASE s = "header"
      BY <1>1, <1>4, <1>5, <1>6 DEF Current, Writes
  <1>7. CASE s = "body"
      BY <1>1, <1>4, <1>5, <1>7 DEF Current, Writes
  <1> QED BY <1>6, <1>7

LEMMA FinishTypes ==
    ASSUME IInv, NEW s \in Stages, NEW b \in Blocks, Finish(s, b)
    PROVE  TypeOK'
  <1> USE DEF Stages
  <1> DEFINE t == Head(queue[s][b])
             f == Following[s]
             res == verdict[s][b].result
  <1>0. TypeOK
      BY DEF IInv
  <1>1. /\ t \in Tasks /\ Tail(queue[s][b]) \in Seq(Tasks)
        /\ f \in Stages \union {"virtual"} /\ res \in Results
    <2>1. queue[s][b] \in Seq(Tasks) /\ queue[s][b] # <<>>
        BY <1>0 DEF TypeOK, Finish
    <2>2. t \in Tasks /\ Tail(queue[s][b]) \in Seq(Tasks)
        BY <2>1, TailElements
    <2> QED BY <1>0, <2>2 DEF TypeOK, Following
  <1>2. queue' \in [Stages -> [Blocks -> Seq(Tasks)]]
      BY <1>0, <1>1 DEF TypeOK, Finish
  <1>3. deps' \in [Stages -> [Blocks -> SUBSET Blocks]]
      BY <1>0 DEF TypeOK, Finish
  <1>4. jobs' \in [Stages -> SUBSET Blocks] /\ taken' \in [Stages -> SUBSET Blocks]
    <2>1. Requeued(s, b) \in SUBSET Blocks
        BY <1>0 DEF TypeOK, Requeued
    <2> QED BY <1>0, <2>1 DEF TypeOK, Finish
  <1>5. verdict' \in [Stages -> [Blocks ->
                        [result : Results, status : Statuses, before : Statuses]]]
    <2>1. NotYet \in [result : Results, status : Statuses, before : Statuses]
        BY DEF NotYet, Results, Statuses
    <2>2. verdict' = [verdict EXCEPT ![s] = [verdict[s] EXCEPT ![b] = NotYet]]
        BY DEF Finish
    <2> QED BY <1>0, <2>1, <2>2 DEF TypeOK
  <1>6. worker' \in [Stages \union {"virtual"} ->
                       {"receiving", "exiting", "waiting", "woken", "closed"}]
      BY <1>0 DEF TypeOK, Finish
  <1>7. chan' \in [Stages \union {"virtual"} -> Seq(Tasks \union {Exit})]
    <2>1. chan' = chan \/ chan' = [chan EXCEPT ![f] = Append(chan[f], t)]
        BY DEF Finish
    <2>2. Append(chan[f], t) \in Seq(Tasks \union {Exit})
        BY <1>0, <1>1, AppendElements DEF TypeOK
    <2> QED BY <1>0, <1>1, <2>1, <2>2 DEF TypeOK
  <1>8. answer' \in [Tasks -> [block : Results, virtual : Results]]
    <2> DEFINE a == [r \in {"block", "virtual"} |->
                       IF r \in Answered(s, t, res) THEN res ELSE answer[t][r]]
    <2>1. answer' = [answer EXCEPT ![t] = a]
        BY DEF Finish
    <2>2. answer[t].block \in Results /\ answer[t].virtual \in Results
        BY <1>0, <1>1 DEF TypeOK
    <2>3. a \in [block : Results, virtual : Results]
        BY <1>1, <2>2
    <2> QED BY <1>0, <2>1, <2>3 DEF TypeOK
  <1>9. status' \in [Blocks -> Statuses] /\ UNCHANGED <<world, sent>>
      BY FinishWrites DEF Finish
  <1> QED BY <1>0, <1>2, <1>3, <1>4, <1>5, <1>6, <1>7, <1>8, <1>9 DEF TypeOK

LEMMA FinishTokens ==
    ASSUME IInv, NEW s \in Stages, NEW b \in Blocks, Finish(s, b)
    PROVE  OneToken' /\ Requeued(s, b) \intersect jobs[s] = {}
  <1> USE DEF Stages
  <1> DEFINE q == queue[s][b]
  <1>0. TypeOK /\ b \in taken[s]
      BY DEF IInv, Finish
  <1>1. Tail(q) = <<>> <=> ~ (Len(q) > 1)
    <2>1. q \in Seq(Tasks) /\ q # <<>>
        BY <1>0 DEF TypeOK, Finish
    <2> HIDE DEF q
    <2> QED BY <2>1, TailElements
  <1>2. /\ queue'[s][b] = Tail(q)
        /\ \A r \in Stages, x \in Blocks : ~ (r = s /\ x = b) => queue'[r][x] = queue[r][x]
      BY <1>0 DEF TypeOK, Finish
  <1>3. /\ jobs'[s] = jobs[s] \union Requeued(s, b) /\ taken'[s] = taken[s] \ {b}
        /\ deps'[s] = IF Tail(q) = <<>> THEN [deps[s] EXCEPT ![b] = {}] ELSE deps[s]
        /\ \A r \in Stages \ {s} :
              jobs'[r] = jobs[r] /\ taken'[r] = taken[r] /\ deps'[r] = deps[r]
      BY <1>0 DEF TypeOK, Finish
  <1>4. \A r \in Stages \ {s} : Pending(r)' = Pending(r)
      BY <1>2 DEF Pending
  <1>5. /\ Pending(s) \in SUBSET Blocks /\ jobs[s] \in SUBSET Blocks
        /\ taken[s] \in SUBSET Blocks /\ deps[s] \in [Blocks -> SUBSET Blocks]
        /\ Balanced(Pending(s), jobs[s], taken[s], deps[s])
      BY <1>0, TokensOfEachStage DEF TypeOK, Pending, Tokens
  <1>6. b \in Pending(s)
      BY DEF Pending, Finish
  <1>7. Tokens(s)' /\ Requeued(s, b) \intersect jobs[s] = {}
    <2>1. CASE Len(q) > 1
      <3>1. Pending(s)' = Pending(s)
          BY <1>1, <1>2, <1>6, <2>1 DEF Pending
      <3>2. jobs'[s] = jobs[s] \union {b} /\ deps'[s] = deps[s] /\ Requeued(s, b) = {b}
          BY <1>1, <1>3, <2>1 DEF Requeued
      <3>3. b \notin jobs[s] /\ Balanced(Pending(s), jobs[s] \union {b}, taken[s] \ {b}, deps[s])
          BY <1>0, <1>5, TokenAgain
      <3> QED BY <1>3, <3>1, <3>2, <3>3 DEF Tokens
    <2>2. CASE ~ (Len(q) > 1)
      <3>1. Pending(s)' = Pending(s) \ {b}
          BY <1>1, <1>2, <2>2 DEF Pending
      <3>2. /\ jobs'[s] = jobs[s] \union deps[s][b] /\ deps'[s] = [deps[s] EXCEPT ![b] = {}]
            /\ Requeued(s, b) = deps[s][b]
          BY <1>1, <1>3, <2>2 DEF Requeued
      <3>3. /\ deps[s][b] \intersect jobs[s] = {}
            /\ Balanced(Pending(s) \ {b}, jobs[s] \union deps[s][b], taken[s] \ {b},
                        [deps[s] EXCEPT ![b] = {}])
          BY <1>0, <1>5, TokenEnds
      <3> QED BY <1>3, <3>1, <3>2, <3>3 DEF Tokens
    <2> QED BY <2>1, <2>2
  <1>8. \A r \in Stages \ {s} : Tokens(r)'
      BY <1>3, <1>4, TokensOfEachStage DEF Tokens
  <1> QED BY <1>7, <1>8, FinishTypes, TokensOfEachStage

LEMMA FinishStep ==
    ASSUME IInv, NEW s \in Stages, NEW b \in Blocks, Finish(s, b)
    PROVE  IInv'
  <1> USE DEF Stages
  <1> DEFINE t == Head(queue[s][b])
             left == Tail(queue[s][b])
             f == Following[s]
  <1>0. TypeOK /\ NoPanic /\ Grouped /\ Headed /\ Current
      BY DEF IInv
  <1>1. /\ t \in Tasks /\ t = queue[s][b][1] /\ 1 \in 1..Len(queue[s][b])
        /\ \A i \in 1..Len(left) : left[i] = queue[s][b][i + 1] /\ i + 1 \in 1..Len(queue[s][b])
        /\ queue[s][b] # <<>>
    <2>1. queue[s][b] \in Seq(Tasks) /\ queue[s][b] # <<>>
        BY <1>0 DEF TypeOK, Finish
    <2> QED BY <2>1, TailElements
  <1>2. Block[t] = b
      BY <1>0, <1>1 DEF Grouped
  <1>3. /\ queue'[s][b] = left
        /\ \A r \in Stages, x \in Blocks : ~ (r = s /\ x = b) => queue'[r][x] = queue[r][x]
        /\ verdict'[s][b] = NotYet
        /\ \A r \in Stages, x \in Blocks : ~ (r = s /\ x = b) => verdict'[r][x] = verdict[r][x]
      BY <1>0 DEF TypeOK, Finish
  <1>4. /\ \A x \in Blocks : status[x] # "unknown" => status'[x] # "unknown"
        /\ verdict[s][b].result = "ok" => status'[b] # "unknown"
      BY FinishWrites
  <1>5. Grouped'
    <2>1. \A i \in 1..Len(left) : Block[left[i]] = b
        BY <1>0, <1>1 DEF Grouped
    <2> HIDE DEF left
    <2> QED BY <1>0, <1>3, <2>1 DEF Grouped
  <1>6. Headed'
    <2>1. ASSUME NEW x \in Blocks, queue'["body"][x] # <<>>
          PROVE  status'[x] # "unknown"
      <3>1. queue["body"][x] # <<>>
          BY <1>1, <1>3, <2>1
      <3> QED BY <1>0, <1>4, <3>1 DEF Headed
    <2>2. ASSUME NEW i \in 1..Len(chan'["body"]), chan'["body"][i] # Exit
          PROVE  status'[Block[chan'["body"][i]]] # "unknown"
      <3>1. CASE chan'["body"] = chan["body"]
        <4>1. Block[chan["body"][i]] \in Blocks
            BY <1>0, <2>2, <3>1, PipelineAssumption DEF TypeOK
        <4> QED BY <1>0, <1>4, <2>2, <3>1, <4>1 DEF Headed
      <3>2. CASE chan'["body"] # chan["body"]
        <4>1. /\ s = "header" /\ chan'["body"] = Append(chan["body"], t)
              /\ "virtual" \notin Answered(s, t, verdict[s][b].result)
          <5>1. chan' = IF "virtual" \in Answered(s, t, verdict[s][b].result) THEN chan
                        ELSE [chan EXCEPT ![f] = Append(chan[f], t)]
              BY DEF Finish
          <5>2. "virtual" \notin Answered(s, t, verdict[s][b].result)
              BY <3>2, <5>1
          <5>3. chan' = [chan EXCEPT ![f] = Append(chan[f], t)]
              BY <5>1, <5>2
          <5>4. f \in {"body", "virtual"} /\ (f = "body" => s = "header")
              BY DEF Following
          <5> HIDE DEF f, t
          <5> QED BY <1>0, <3>2, <5>2, <5>3, <5>4 DEF TypeOK
        <4>2. verdict[s][b].result = "ok"
            BY <4>1 DEF Answered
        <4>3. \/ i \in 1..Len(chan["body"]) /\ chan'["body"][i] = chan["body"][i]
              \/ chan'["body"][i] = t
          <5>1. chan["body"] \in Seq(Tasks \union {Exit}) /\ t \in Tasks \union {Exit}
              BY <1>0, <1>1 DEF TypeOK
          <5> HIDE DEF t
          <5> QED BY <2>2, <4>1, <5>1, AppendElements
        <4>4. CASE chan'["body"][i] = t
            BY <1>2, <1>4, <4>2, <4>4
        <4>5. CASE i \in 1..Len(chan["body"]) /\ chan'["body"][i] = chan["body"][i]
          <5>1. Block[chan["body"][i]] \in Blocks
              BY <1>0, <2>2, <4>5, PipelineAssumption DEF TypeOK
          <5> QED BY <1>0, <1>4, <2>2, <4>5, <5>1 DEF Headed
        <4> QED BY <4>3, <4>4, <4>5
      <3> QED BY <3>1, <3>2
    <2> QED BY <2>1, <2>2 DEF Headed
  <1>7. Current'
    <2> SUFFICES ASSUME NEW x \in Blocks
                 PROVE  /\ Current!1!(x)'
                        /\ \A r \in Stages : Current!2!(r, x)'
        BY DEF Current
    <2>1. NotYet.status = "unknown" /\ NotYet.before = "unknown" /\ NotYet.result = "waiting"
        BY DEF NotYet
    <2>2. CASE x # b
      <3>1. verdict'["header"][x] = verdict["header"][x] /\ verdict'["body"][x] = verdict["body"][x]
            /\ status'[x] = status[x]
          BY <1>3, <2>2, FinishWrites
      <3> QED BY <1>0, <3>1 DEF Current, Writes
    <2>3. CASE x = b /\ s = "header"
      <3>1. verdict'["header"][x] = NotYet /\ verdict'["body"][x] = verdict["body"][x]
          BY <1>3, <2>3
      <3>2. status'[x] # status[x] => status[x] = "unknown"
          BY <2>3, FinishWrites
      <3> QED BY <1>0, <1>4, <2>1, <3>1, <3>2 DEF Current, Writes
    <2>4. CASE x = b /\ s = "body"
      <3>1. verdict'["header"][x] = verdict["header"][x] /\ verdict'["body"][x] = NotYet
          BY <1>3, <2>4
      <3>2. status'[x] # status[x] => status[x] = "header"
          BY <2>4, FinishWrites
      <3> QED BY <1>0, <1>4, <2>1, <3>1, <3>2 DEF Current, Writes
    <2> QED BY <2>2, <2>3, <2>4
  <1>8. NoPanic'
      BY <1>0, FinishWrites, FinishTokens DEF Finish, NoPanic, Writes
  <1> QED BY <1>5, <1>6, <1>7, <1>8, FinishTypes, FinishTokens DEF IInv

---------------------------------------------------------------------------
LEMMA Inductive == IInv /\ [Next]_vars => IInv'
  <1> SUFFICES ASSUME IInv, [Next]_vars
               PROVE  IInv'
      OBVIOUS
  <1>1. CASE \E m \in Tasks \union {Exit} : Send(m)
      BY <1>1, SendStep
  <1>2. ASSUME NEW s \in Stages, Worker(s)
        PROVE  IInv'
      BY <1>2, RegisterStep, WorkerStep DEF Worker
  <1>3. ASSUME NEW s \in Stages, NEW b \in Blocks, Thread(s, b)
        PROVE  IInv'
      BY <1>3, BeginStep, PostponeStep, ProcessStep, FinishStep DEF Thread
  <1>4. CASE Resolve \/ ExitVirtual
      BY <1>4, VirtualStep
  <1>5. CASE UNCHANGED vars
    <2>1. UNCHANGED <<world, queue, deps, jobs, taken, verdict, status, faults>>
          /\ UNCHANGED <<sent, chan, worker, answer>>
        BY <1>5 DEF vars
    <2>2. TypeOK'
        BY <2>1 DEF IInv, TypeOK
    <2> QED BY <2>1, <2>2, QuietStep
  <1> QED BY <1>1, <1>2, <1>3, <1>4, <1>5 DEF Next, System

LEMMA Invariance == Spec => []IInv
  BY InitHolds, Inductive, PTL DEF Spec

(* Every variable of the pipeline keeps its type. *)
THEOREM PipelineTypes == Spec => []TypeOK
  <1>1. IInv => TypeOK
      BY DEF IInv
  <1> QED BY <1>1, Invariance, PTL

(* For every DAG and schedule, nothing that the dependency manager and the *)
(* processors expect, assert or unwrap fails: no job finds its group gone  *)
(* or its task taken, no hash is queued twice, no body task meets a block  *)
(* without a header, and no header or body is inserted twice.              *)
THEOREM PipelineNeverPanics == Spec => []NoPanic
  <1>1. IInv => NoPanic
      BY DEF IInv
  <1> QED BY <1>1, Invariance, PTL

(* Each pending hash is moved by exactly one of a pool job, a thread that  *)
(* took its task, and one dependents entry of a pending parent: register,  *)
(* try_begin and end neither lose a hash nor run it twice at once.         *)
THEOREM PendingHashesMove == Spec => []OneToken
  <1>1. IInv => OneToken
      BY DEF IInv
  <1> QED BY <1>1, Invariance, PTL

(* A block status only goes from unknown to header, from there to body,    *)
(* and from either of the first two to invalid, although the two           *)
(* processors read it, validate and write it back in separate steps.       *)
THEOREM StatusesAdvance == Spec => Advances
  <1> DEFINE A == \A b \in Blocks : status'[b] # status[b] =>
         <<status[b], status'[b]>> \in {<<"unknown", "header">>, <<"unknown", "invalid">>,
                                        <<"header", "body">>, <<"header", "invalid">>}
  <1>1. ASSUME IInv, [Next]_vars PROVE [A]_vars
    <2>1. CASE \E s \in Stages, b \in Blocks : Finish(s, b)
      <3>1. PICK s \in Stages, b \in Blocks : Finish(s, b)
          BY <2>1
      <3>2. /\ \A x \in Blocks \ {b} : status'[x] = status[x]
            /\ status'[b] # status[b] =>
                  \/ status[b] = "unknown" /\ status'[b] \in {"header", "invalid"}
                  \/ status[b] = "header" /\ status'[b] \in {"body", "invalid"}
          BY <1>1, <3>1, FinishWrites
      <3> QED BY <3>2
    <2>2. CASE status' = status
        BY <2>2
    <2>3. (\E s \in Stages, b \in Blocks : Finish(s, b)) \/ status' = status
        BY <1>1 DEF Next, System, Worker, Thread, vars, Send, Register, ReceiveExit, Wait, PassExit,
                    Begin, Postpone, Process, Resolve, ExitVirtual
    <2> QED BY <2>1, <2>2, <2>3
  <1> QED BY <1>1, Invariance, PTL DEF Spec, Advances

---------------------------------------------------------------------------
(* The shutdown.  No channel carries anything behind an exit message, a    *)
(* worker that has stopped receiving has an empty channel for good, and a  *)
(* worker that was woken or has closed has nothing pending for good.       *)

Messages == Tasks \union {Exit}

NoExit(q) == \A i \in 1..Len(q) : q[i] # Exit
ExitAtEnd(q) == \A i \in 1..Len(q) : q[i] = Exit => i = Len(q)

(* Who sends to the channel of a stage has sent its exit message. *)
Ended(s) == IF s = "header" THEN Exit \in Sent ELSE worker["header"] = "closed"

Closing ==
    /\ \A s \in Stages :
         /\ ExitAtEnd(chan[s]) /\ (~ Ended(s) => NoExit(chan[s]))
         /\ worker[s] # "receiving" => chan[s] = <<>> /\ Ended(s)
         /\ worker[s] \in {"woken", "closed"} => Pending(s) = {}
    /\ ExitAtEnd(chan["virtual"]) /\ (worker["body"] # "closed" => NoExit(chan["virtual"]))

LEMMA ExitMoves ==
    ASSUME NEW q \in Seq(Messages), ExitAtEnd(q)
    PROVE  /\ q # <<>> => ExitAtEnd(Tail(q))
           /\ q # <<>> /\ NoExit(q) => NoExit(Tail(q))
           /\ q # <<>> /\ Head(q) = Exit => Tail(q) = <<>>
           /\ \A x \in Messages : NoExit(q) => ExitAtEnd(Append(q, x))
           /\ \A x \in Messages : NoExit(q) /\ x # Exit => NoExit(Append(q, x))
           /\ \A n \in 1..Len(q) : /\ ExitAtEnd(SubSeq(q, n + 1, Len(q)))
                                   /\ NoExit(q) => NoExit(SubSeq(q, n + 1, Len(q)))
  <1>1. ASSUME q # <<>>
        PROVE  /\ ExitAtEnd(Tail(q)) /\ (NoExit(q) => NoExit(Tail(q)))
               /\ Head(q) = Exit => Tail(q) = <<>>
    <2>1. /\ Head(q) = q[1] /\ 1 \in 1..Len(q) /\ Len(q) \in Nat
          /\ Len(Tail(q)) = Len(q) - 1
          /\ \A i \in 1..Len(Tail(q)) : Tail(q)[i] = q[i + 1] /\ i + 1 \in 1..Len(q)
          /\ Tail(q) = <<>> <=> Len(q) = 1
        BY <1>1, TailElements
    <2>2. \A i \in 1..Len(Tail(q)) : i + 1 = Len(q) => i = Len(Tail(q))
        BY <2>1
    <2> QED BY <2>1, <2>2 DEF ExitAtEnd, NoExit
  <1>2. ASSUME NEW x \in Messages, NoExit(q)
        PROVE  ExitAtEnd(Append(q, x)) /\ (x # Exit => NoExit(Append(q, x)))
    <2>1. /\ Len(q) \in Nat /\ Len(Append(q, x)) = Len(q) + 1
          /\ \A i \in 1..Len(q) : Append(q, x)[i] = q[i]
          /\ Append(q, x)[Len(q) + 1] = x
        BY AppendElements
    <2>2. \A i \in 1..(Len(q) + 1) : i \in 1..Len(q) \/ i = Len(q) + 1
        BY <2>1
    <2> QED BY <1>2, <2>1, <2>2 DEF ExitAtEnd, NoExit
  <1>3. ASSUME NEW n \in 1..Len(q)
        PROVE  /\ ExitAtEnd(SubSeq(q, n + 1, Len(q)))
               /\ NoExit(q) => NoExit(SubSeq(q, n + 1, Len(q)))
    <2> DEFINE r == SubSeq(q, n + 1, Len(q))
    <2>1. /\ Len(q) \in Nat /\ n \in Nat /\ Len(r) = Len(q) - n
          /\ \A i \in 1..Len(r) : r[i] = q[n + i]
        BY SubSeqProperties
    <2>2. \A i \in 1..Len(r) : n + i \in 1..Len(q) /\ (n + i = Len(q) => i = Len(r))
        BY <2>1
    <2> HIDE DEF r
    <2>3. ExitAtEnd(r) /\ (NoExit(q) => NoExit(r))
        BY <2>1, <2>2 DEF ExitAtEnd, NoExit
    <2> QED BY <2>3 DEF r
  <1> QED BY <1>1, <1>2, <1>3

LEMMA ClosingInit == Init => Closing
  <1> SUFFICES ASSUME Init PROVE Closing
      OBVIOUS
  <1>1. \A s \in Stages \union {"virtual"} : chan[s] = <<>> /\ worker[s] = "receiving"
      BY DEF Init
  <1>2. ExitAtEnd(<<>>) /\ NoExit(<<>>)
      BY DEF ExitAtEnd, NoExit
  <1> QED BY <1>1, <1>2 DEF Closing, Stages

LEMMA ClosingSend ==
    ASSUME IInv, Closing, NEW m \in Messages, Send(m)
    PROVE  Closing'
  <1> USE DEF Stages
  <1> DEFINE q == chan["header"]
  <1>1. /\ q \in Seq(Messages) /\ sent \in Seq(Messages)
        /\ chan'["header"] = Append(q, m) /\ chan'["body"] = chan["body"]
        /\ chan'["virtual"] = chan["virtual"]
        /\ worker' = worker /\ queue' = queue /\ sent' = Append(sent, m) /\ Exit \notin Sent
      BY DEF IInv, TypeOK, Send, Messages
  <1>2. NoExit(q) /\ ExitAtEnd(q) /\ worker["header"] = "receiving"
      BY <1>1 DEF Closing, Ended
  <1>3. m = Exit => Exit \in Sent'
    <2>1. Len(sent) + 1 \in 1..Len(sent') /\ sent'[Len(sent) + 1] = m
        BY <1>1, AppendElements
    <2> QED BY <2>1 DEF Sent
  <1> HIDE DEF q
  <1>4. ExitAtEnd(Append(q, m)) /\ (m # Exit => NoExit(Append(q, m)))
      BY <1>1, <1>2, ExitMoves
  <1>5. \A s \in Stages : Pending(s)' = Pending(s)
      BY <1>1 DEF Pending
  <1>6. Closing!1!("header")'
      BY <1>1, <1>2, <1>3, <1>4 DEF Ended
  <1>7. Closing!1!("body")' /\ Closing!2'
    <2>1. Ended("body")' = Ended("body")
        BY <1>1 DEF Ended
    <2> QED BY <1>1, <1>5, <2>1 DEF Closing
  <1> QED BY <1>6, <1>7 DEF Closing

LEMMA ClosingReceive ==
    ASSUME IInv, Closing, NEW s \in Stages, Register(s) \/ ReceiveExit(s)
    PROVE  Closing'
  <1> USE DEF Stages
  <1> DEFINE q == chan[s]
  <1>1. /\ q \in Seq(Messages) /\ q # <<>> /\ worker[s] = "receiving"
        /\ chan'[s] = Tail(q)
        /\ \A r \in (Stages \union {"virtual"}) \ {s} : chan'[r] = chan[r] /\ worker'[r] = worker[r]
        /\ sent' = sent
      BY DEF IInv, TypeOK, Register, ReceiveExit, Messages
  <1>2. ExitAtEnd(q) /\ (~ Ended(s) => NoExit(q))
      BY DEF Closing
  <1> HIDE DEF q
  <1>3. /\ ExitAtEnd(Tail(q)) /\ (NoExit(q) => NoExit(Tail(q)))
        /\ Head(q) = Exit => Tail(q) = <<>>
      BY <1>1, <1>2, ExitMoves
  <1>4. \A r \in Stages \ {s} : Pending(r)' = Pending(r)
      BY DEF IInv, TypeOK, Pending, Register, ReceiveExit
  <1>5. /\ worker'[s] # "receiving" => worker'[s] = "exiting" /\ Head(q) = Exit
        /\ worker'[s] # "closed"
      BY <1>1 DEF IInv, TypeOK, Register, ReceiveExit, q
  <1>6. Ended("header")' = Ended("header")
      BY <1>1 DEF Ended, Sent
  <1>7. Ended("body")' = Ended("body")
      BY <1>1, <1>5 DEF Ended
  <1>8. Closing!1!(s)'
    <2>1. Head(q) = Exit => Ended(s)
      <3>1. q[1] = Head(q) /\ 1 \in 1..Len(q)
          BY <1>1, TailElements
      <3> QED BY <1>2, <3>1 DEF NoExit
    <2> QED BY <1>1, <1>2, <1>3, <1>5, <1>6, <1>7, <2>1
  <1>9. \A r \in Stages \ {s} : Closing!1!(r)'
      BY <1>1, <1>4, <1>6, <1>7 DEF Closing
  <1>10. Closing!2'
      BY <1>1, <1>5 DEF Closing
  <1> QED BY <1>8, <1>9, <1>10 DEF Closing

LEMMA ClosingPassExit ==
    ASSUME IInv, Closing, NEW s \in Stages, Wait(s) \/ PassExit(s)
    PROVE  Closing'
  <1> USE DEF Stages
  <1>1. /\ \A r \in Stages : Pending(r)' = Pending(r)
        /\ Ended("header")' = Ended("header")
        /\ \A r \in (Stages \union {"virtual"}) \ {s} : worker'[r] = worker[r]
      BY DEF IInv, TypeOK, Pending, Wait, PassExit, Ended, Sent
  <1>2. CASE Wait(s)
    <2>1. /\ \A r \in Stages \union {"virtual"} : chan'[r] = chan[r]
          /\ worker[s] = "exiting" /\ worker'[s] = "waiting"
        BY <1>2 DEF IInv, TypeOK, Wait
    <2>2. Ended("body")' = Ended("body")
        BY <1>1, <2>1 DEF Ended
    <2> QED BY <1>1, <2>1, <2>2 DEF Closing
  <1>3. CASE PassExit(s)
    <2> DEFINE f == Following[s]
    <2>1. /\ chan[f] \in Seq(Messages) /\ f \in {"body", "virtual"} /\ f # s
          /\ (f = "body" <=> s = "header") /\ (f = "virtual" <=> s = "body")
        BY DEF IInv, TypeOK, Messages, Following
    <2>2. /\ chan'[f] = Append(chan[f], Exit)
          /\ \A r \in (Stages \union {"virtual"}) \ {f} : chan'[r] = chan[r]
          /\ worker[s] \in {"exiting", "woken"} /\ worker'[s] = "closed"
        BY <1>3, <2>1 DEF IInv, TypeOK, PassExit
    <2>3. Pending(s) = {}
        BY <1>3 DEF PassExit, Closing
    <2>4. NoExit(chan[f]) /\ ExitAtEnd(chan[f]) /\ (s = "header" => worker["body"] = "receiving")
        BY <2>1, <2>2 DEF Closing, Ended
    <2> HIDE DEF f
    <2>5. ExitAtEnd(Append(chan[f], Exit))
      <3>1. Exit \in Messages
          BY DEF Messages
      <3> QED BY <2>1, <2>4, <3>1, ExitMoves
    <2>6. CASE s = "header"
      <3>1. Ended("body")'
          BY <2>2, <2>6 DEF Ended
      <3>2. Closing!1!("header")'
          BY <1>1, <2>1, <2>2, <2>3, <2>6 DEF Closing
      <3>3. Closing!1!("body")'
          BY <1>1, <2>1, <2>2, <2>4, <2>5, <2>6, <3>1
      <3>4. Closing!2'
          BY <1>1, <2>1, <2>2, <2>6 DEF Closing
      <3> QED BY <3>2, <3>3, <3>4 DEF Closing
    <2>7. CASE s = "body"
      <3>1. Ended("body")' = Ended("body")
          BY <1>1, <2>7 DEF Ended
      <3>2. Closing!1!("header")'
          BY <1>1, <2>1, <2>2, <2>7 DEF Closing
      <3>3. Closing!1!("body")'
          BY <1>1, <2>1, <2>2, <2>3, <2>7, <3>1 DEF Closing
      <3>4. Closing!2'
          BY <2>1, <2>2, <2>5, <2>7
      <3> QED BY <3>2, <3>3, <3>4 DEF Closing
    <2> QED BY <2>6, <2>7
  <1> QED BY <1>2, <1>3

LEMMA ClosingFinish ==
    ASSUME IInv, Closing, NEW s \in Stages, NEW b \in Blocks, Finish(s, b)
    PROVE  Closing'
  <1> USE DEF Stages
  <1> DEFINE t == Head(queue[s][b])
             f == Following[s]
  <1>1. /\ chan[f] \in Seq(Messages) /\ f \in {"body", "virtual"} /\ f # s
        /\ (f = "body" <=> s = "header") /\ (f = "virtual" <=> s = "body")
      BY DEF IInv, TypeOK, Messages, Following
  <1>2. /\ t \in Messages /\ t # Exit
        /\ Tail(queue[s][b]) = <<>> <=> Len(queue[s][b]) = 1
    <2>1. queue[s][b] \in Seq(Tasks) /\ queue[s][b] # <<>>
        BY DEF IInv, TypeOK, Finish
    <2>2. t \in Tasks /\ (Tail(queue[s][b]) = <<>> <=> Len(queue[s][b]) = 1)
        BY <2>1, TailElements
    <2> QED BY <2>2, PipelineAssumption DEF Messages
  <1>3. worker[s] \notin {"woken", "closed"}
      BY DEF Finish, Pending, Closing
  <1>4. /\ \A r \in Stages \ {s} : Pending(r)' = Pending(r)
        /\ LastPending(s, b) => Pending(s)' = {}
    <2>1. /\ queue'[s][b] = Tail(queue[s][b])
          /\ \A r \in Stages, x \in Blocks : ~ (r = s /\ x = b) => queue'[r][x] = queue[r][x]
        BY DEF IInv, TypeOK, Finish
    <2> QED BY <1>2, <2>1 DEF Pending, LastPending
  <1>5. /\ worker'[s] = worker[s] \/ (worker'[s] = "woken" /\ worker[s] = "waiting" /\ LastPending(s, b))
        /\ \A r \in (Stages \union {"virtual"}) \ {s} : worker'[r] = worker[r]
      BY DEF IInv, TypeOK, Finish
  <1>6. \/ chan' = chan
        \/ /\ chan'[f] = Append(chan[f], t)
           /\ \A r \in (Stages \union {"virtual"}) \ {f} : chan'[r] = chan[r]
    <2>1. chan' = chan \/ chan' = [chan EXCEPT ![f] = Append(chan[f], t)]
        BY DEF Finish
    <2> QED BY <1>1, <2>1 DEF IInv, TypeOK
  <1>7. Ended("header")' = Ended("header") /\ Ended("body")' = Ended("body")
      BY <1>3, <1>5 DEF Ended, Sent, Finish
  <1>8. NoExit(chan[f]) /\ ExitAtEnd(chan[f]) /\ (s = "header" => worker["body"] = "receiving")
      BY <1>1, <1>3 DEF Closing, Ended
  <1> HIDE DEF f, t
  <1>9. ExitAtEnd(Append(chan[f], t)) /\ NoExit(Append(chan[f], t))
      BY <1>1, <1>2, <1>8, ExitMoves
  <1>10. ExitAtEnd(chan'[f]) /\ NoExit(chan'[f])
      BY <1>6, <1>8, <1>9
  <1>11. chan'[s] = chan[s]
      BY <1>1, <1>6
  <1>12. Closing!1!(s)'
      BY <1>3, <1>4, <1>5, <1>7, <1>11 DEF Closing
  <1>13. \A r \in Stages \ {s} : Closing!1!(r)'
    <2>1. CASE s = "header"
        BY <1>1, <1>4, <1>5, <1>7, <1>8, <1>10, <2>1 DEF Closing
    <2>2. CASE s = "body"
        BY <1>1, <1>4, <1>5, <1>6, <1>7, <2>2 DEF Closing
    <2> QED BY <2>1, <2>2
  <1>14. Closing!2'
    <2>1. CASE s = "header"
        BY <1>1, <1>5, <1>6, <2>1 DEF Closing
    <2>2. CASE s = "body"
        BY <1>1, <1>10, <2>2
    <2> QED BY <2>1, <2>2
  <1> QED BY <1>12, <1>13, <1>14 DEF Closing

LEMMA ClosingVirtual ==
    ASSUME IInv, Closing, Resolve \/ ExitVirtual
    PROVE  Closing'
  <1> USE DEF Stages
  <1> DEFINE q == chan["virtual"]
  <1>1. /\ q \in Seq(Messages) /\ q # <<>>
        /\ \A r \in Stages : /\ chan'[r] = chan[r] /\ worker'[r] = worker[r]
                             /\ Pending(r)' = Pending(r)
        /\ sent' = sent
      BY DEF IInv, TypeOK, Resolve, ExitVirtual, Messages, Pending
  <1>2. ExitAtEnd(q) /\ (worker["body"] # "closed" => NoExit(q))
      BY DEF Closing
  <1>3. \/ chan'["virtual"] = Tail(q)
        \/ \E n \in 1..Len(q) : chan'["virtual"] = SubSeq(q, n + 1, Len(q))
      BY DEF IInv, TypeOK, Resolve, ExitVirtual
  <1> HIDE DEF q
  <1>4. ExitAtEnd(chan'["virtual"]) /\ (NoExit(q) => NoExit(chan'["virtual"]))
    <2>1. CASE chan'["virtual"] = Tail(q)
        BY <1>1, <1>2, <2>1, ExitMoves
    <2>2. ASSUME NEW n \in 1..Len(q), chan'["virtual"] = SubSeq(q, n + 1, Len(q))
          PROVE  ExitAtEnd(chan'["virtual"]) /\ (NoExit(q) => NoExit(chan'["virtual"]))
        BY <1>1, <1>2, <2>2, ExitMoves
    <2> QED BY <1>3, <2>1, <2>2
  <1>5. Ended("header")' = Ended("header") /\ Ended("body")' = Ended("body")
      BY <1>1 DEF Ended, Sent
  <1> QED BY <1>1, <1>2, <1>4, <1>5 DEF Closing

LEMMA ClosingStep == IInv /\ Closing /\ [Next]_vars => Closing'
  <1> SUFFICES ASSUME IInv, Closing, [Next]_vars
               PROVE  Closing'
      OBVIOUS
  <1>1. ASSUME UNCHANGED <<sent, chan, worker, queue>>
        PROVE  Closing'
    <2>1. \A s \in Stages : Pending(s)' = Pending(s) /\ Ended(s)' = Ended(s)
        BY <1>1 DEF Pending, Ended, Sent
    <2> QED BY <1>1, <2>1 DEF Closing
  <1>2. CASE \E m \in Tasks \union {Exit} : Send(m)
      BY <1>2, ClosingSend DEF Messages
  <1>3. ASSUME NEW s \in Stages, Worker(s)
        PROVE  Closing'
      BY <1>3, ClosingReceive, ClosingPassExit DEF Worker
  <1>4. ASSUME NEW s \in Stages, NEW b \in Blocks, Thread(s, b)
        PROVE  Closing'
    <2>1. CASE Begin(s, b) \/ Postpone(s, b) \/ Process(s, b)
        BY <1>1, <2>1 DEF Begin, Postpone, Process
    <2> QED BY <1>4, <2>1, ClosingFinish DEF Thread
  <1>5. CASE Resolve \/ ExitVirtual
      BY <1>5, ClosingVirtual
  <1>6. CASE UNCHANGED vars
      BY <1>1, <1>6 DEF vars
  <1> QED BY <1>2, <1>3, <1>4, <1>5, <1>6 DEF Next, System

(* A shutdown drops nothing: a processor hands the exit message on only    *)
(* when nothing is pending in it, although wait_for_idle does not look     *)
(* again after it is woken, and no task ever follows the exit message in   *)
(* the channel of the next processor.                                      *)
THEOREM ShutdownIsClean == Spec => []ExitIsLast
  <1>1. Closing => ExitIsLast
    <2> SUFFICES ASSUME Closing, NEW s \in Stages
                 PROVE  ExitIsLast!(s)
        BY DEF ExitIsLast
    <2>1. CASE s = "header"
      <3>1. Following[s] = "body"
          BY <2>1 DEF Following
      <3> QED BY <2>1, <3>1 DEF Closing, Ended, NoExit, ExitAtEnd, Stages
    <2>2. CASE s = "body"
      <3>1. Following[s] = "virtual"
          BY <2>2 DEF Following
      <3> QED BY <2>2, <3>1 DEF Closing, NoExit, ExitAtEnd, Stages
    <2> QED BY <2>1, <2>2 DEF Stages
  <1> QED BY <1>1, Invariance, ClosingInit, ClosingStep, PTL DEF Spec
================================================================================
